---- MODULE Spec2Model ----
(***************************************************************************)
(* TreeRAG query-time retrieval engine (src/tree_rag).                     *)
(*                                                                         *)
(* The module holds one state machine per component:                       *)
(*   SpecClient   : OpenAICompatibleClient._post_json, one loop iteration  *)
(*                  (one HTTP attempt, with its backoff sleep) per step.   *)
(*   SpecRerank   : rerank_chunks, one call per step, over pools of        *)
(*                  candidates with every backend outcome.                 *)
(*   SpecSelect   : rerank_chunks without a backend, over the pools of up  *)
(*                  to MaxPool candidates.                                 *)
(*   SpecArrival  : rerank_chunks over pools in every arrival order.       *)
(*   SpecLocate   : locate_nodes, one call per step, over trees, queries   *)
(*                  and every shape of reply of the chat backend.          *)
(*   SpecPipeline : run_pipeline, one stage (or one iteration of the       *)
(*                  retrieval loop) per step.                              *)
(*   SpecRerankResponse : one client.rerank call, over the shapes of the   *)
(*                  backend's response body.                               *)
(*   SpecMethod   : chat_completion, embeddings and rerank over the HTTP   *)
(*                  outcomes of their request.                             *)
(*   SpecKeyword  : locate_nodes on the keyword strategy, over leaves in   *)
(*                  every order and every top_k.                           *)
(*   SpecHybrid   : hybrid_retrieve, one call per step, over chunk lists,  *)
(*                  BM25 indexes, embeddings, weights and top_k.           *)
(*   SpecSynthesize : synthesize_answer, one call per step.                *)
(*   SpecChunk    : chunk_content, one call per step.                      *)
(*   SpecIndex    : build_index_from_tree, then save_index, then           *)
(*                  load_index, one call per step.                         *)
(*   SpecChunkLoop : chunk_content, one turn of its loops per step, with   *)
(*                  weak fairness: a running call takes its next step.     *)
(*   SpecShared   : two run_pipeline calls over one RagIndex, one stage of *)
(*                  one call per step, in every interleaving; the objects  *)
(*                  are held in a heap and reached through references.     *)
(***************************************************************************)
EXTENDS Integers, Sequences, FiniteSets, TLC

(***************************************************************************)
(* Bounds of the model.                                                    *)
(***************************************************************************)
\* largest max_retries argument handed to the client constructor
MaxRetriesArg == 3
\* largest retry_backoff_seconds argument handed to the client constructor
MaxBackoffArg == 1
\* largest number of candidates in the pool handed to rerank_chunks
MaxPool == 4
\* scores (fused, backend) range over 0 .. MaxScore, in thirds of 1e-4
MaxScore == 1
\* largest number of entries in the "results" list of a node-location reply
MaxReplyItems == 2
\* largest number of chunks of a node of the index
MaxChunks == 2
\* largest config.top_k of a run_pipeline call
MaxTopK == 2
\* most documents of one rerank request whose response is read
MaxDocs == 3
\* most leaves of a tree whose every order is tried by the keyword strategy
MaxLeaves == 3

(***************************************************************************)
(* Generic helpers.                                                        *)
(***************************************************************************)
Max(a, b) == IF a >= b THEN a ELSE b
Min(a, b) == IF a <= b THEN a ELSE b

RECURSIVE Pow2(_)
Pow2(n) == IF n <= 0 THEN 1 ELSE 2 * Pow2(n - 1)

Last(s) == s[Len(s)]

(***************************************************************************)
(* State.                                                                  *)
(***************************************************************************)
VARIABLES
    \* ---- OpenAICompatibleClient and one running _post_json call ----
    max_retries,            \* self.max_retries (after the constructor's clamp)
    retry_backoff_seconds,  \* self.retry_backoff_seconds (after the clamp)
    pj_pc,                  \* "running" | "returned" | "raised"
    pj_attempts,            \* outcome of every HTTP attempt made so far, in order
    pj_waits,               \* wait_seconds computed before every `continue`, in order
    pj_error                \* the exception the call raised, or NoError

clientVars == <<max_retries, retry_backoff_seconds, pj_pc, pj_attempts, pj_waits, pj_error>>

VARIABLES
    \* ---- one rerank_chunks call ----
    rr_pc,        \* "idle" | "ready" | "done"
    rr_pool,      \* retrieved_chunks: the caller's list of RetrievedChunk objects
    rr_args,      \* the other arguments of the call, and the pool as it was passed
    rr_requests,  \* the client.rerank calls made, with their arguments
    rr_reply,     \* what client.rerank did: NoReply, a raise, or a score list
    rr_result     \* the list rerank_chunks returned

rerankVars == <<rr_pc, rr_pool, rr_args, rr_requests, rr_reply, rr_result>>

VARIABLES
    \* ---- one locate_nodes call ----
    lc_pc,     \* "idle" | "ready" | "done"
    lc_args,   \* the arguments of the call
    lc_reply,  \* what client.chat_completion did: NoChat, a raise, or a text
    lc_out     \* how the call ended: returned (results, thinking) or raised

locateVars == <<lc_pc, lc_args, lc_reply, lc_out>>

VARIABLES
    \* ---- one run_pipeline call ----
    pp_pc,        \* "idle" | "locate" | "embedder" | "retrieve" | "rerank" |
                  \* "synthesize" | "returned" | "raised"
    pp_args,      \* the arguments of the call
    pp_located,   \* located_nodes
    pp_thinking,  \* thinking
    pp_next,      \* position in located_nodes of the loop over the nodes
    pp_pool,      \* all_retrieved
    pp_evidence,  \* reranked
    pp_calls,     \* the backend calls made so far, by client method
    pp_error,     \* the exception run_pipeline raised, or "none"
    pp_result     \* the PipelineResult returned

pipelineVars == <<pp_pc, pp_args, pp_located, pp_thinking, pp_next, pp_pool, pp_evidence,
                  pp_calls, pp_error, pp_result>>

VARIABLES
    \* ---- one call of a function of the library that keeps no state ----
    call_pc,    \* "idle" | "ready" | "done"
    call_args,  \* the function called and its arguments
    call_out    \* what the call returned or raised, and the calls it made

callVars == <<call_pc, call_args, call_out>>

notClientVars == <<rerankVars, locateVars, pipelineVars, callVars>>
notRerankVars == <<clientVars, locateVars, pipelineVars, callVars>>
notLocateVars == <<clientVars, rerankVars, pipelineVars, callVars>>
notPipelineVars == <<clientVars, rerankVars, locateVars, callVars>>
notCallVars == <<clientVars, rerankVars, locateVars, pipelineVars>>

vars == <<clientVars, rerankVars, locateVars, pipelineVars, callVars>>

(***************************************************************************)
(* Data model (types.py).  A RetrievedChunk is a record                    *)
(*   [oid, chunk, score, retrieval_detail]                                 *)
(* where oid is the identity of the Python object (id(item)), chunk is the *)
(* Chunk it wraps and retrieval_detail is a map from score names to        *)
(* values.  Scores are integers counting thirds of 1e-4, so that rounding  *)
(* to four decimals (Round4) is a real conversion.                         *)
(***************************************************************************)
\* RagConfig.top_k as load_rag_config sets it when RAG_TOP_K is unset
DefaultTopK == 5

\* one unit of the fourth decimal, in model score units
Tick == 3

\* round(x, 4)
Round4(x) == ((x + 1) \div Tick) * Tick

Chunk(chunk_id, text, source_node_id, heading_path, embedding) ==
    [chunk_id |-> chunk_id, text |-> text, source_node_id |-> source_node_id,
     heading_path |-> heading_path, embedding |-> embedding]

RetrievedChunk(oid, chunk, score, detail) ==
    [oid |-> oid, chunk |-> chunk, score |-> score, retrieval_detail |-> detail]

\* RAG_DENSE_WEIGHT and RAG_BM25_WEIGHT when unset, in tenths
DefaultDenseWeight == 5
DefaultBm25Weight == 5

\* the fields of RagConfig the query path reads; the weights are in tenths
RagConfig(top_k, dense_weight, bm25_weight, diversify, min_unique) ==
    [top_k |-> top_k, dense_weight |-> dense_weight, bm25_weight |-> bm25_weight,
     rerank_diversify |-> diversify, rerank_min_unique_nodes |-> min_unique]

\* d[key] = value  (dict item assignment)
DictSet(d, key, value) == (key :> value) @@ d

\* d.get(key, default)
DictGet(d, key, default) == IF key \in DOMAIN d THEN d[key] ELSE default

SeqToSet(s) == {s[i] : i \in 1 .. Len(s)}

(***************************************************************************)
(* OpenAICompatibleClient.rerank: the request body.  top_n is {} for None  *)
(* and {n} for the integer n.                                              *)
(***************************************************************************)
\* the generic body gets a top_n field only when top_n is not None
GenericRerankPayloadWithTopN(model, query, documents, top_n) ==
    [model |-> model, query |-> query, documents |-> documents,
     top_n |-> IF top_n # {} THEN CHOOSE n \in top_n : TRUE ELSE 1]
GenericRerankPayload(model, query, documents, top_n) ==
    IF top_n # {}
    THEN [model |-> model, query |-> query, documents |-> documents,
          top_n |-> CHOOSE n \in top_n : TRUE]
    ELSE [model |-> model, query |-> query, documents |-> documents]

DashscopeRerankPayload(model, query, documents, top_n) ==
    LET resolved_top_n == IF top_n # {} THEN CHOOSE n \in top_n : TRUE ELSE Len(documents)
    IN  [model |-> model,
         input |-> [query |-> query, documents |-> documents],
         parameters |-> [return_documents |-> FALSE, top_n |-> resolved_top_n]]

\* OpenAICompatibleClient._is_dashscope_host decides the shape of the body
RerankPayload(is_dashscope, model, query, documents, top_n) ==
    IF is_dashscope
    THEN DashscopeRerankPayload(model, query, documents, top_n)
    ELSE GenericRerankPayload(model, query, documents, top_n)

\* one call client.rerank(model=..., query=..., documents=..., top_n=...)
RerankCall(model, query, documents, top_n) ==
    [model |-> model, query |-> query, documents |-> documents, top_n |-> top_n]

(***************************************************************************)
(* reranker.py                                                             *)
(***************************************************************************)
\* _fused_score
FusedScore(item) == DictGet(item.retrieval_detail, "fused_score", 0)

\* the sort key of _sorted_chunks, as a strict order: a sorts before b
SortsBeforeNoIdTieBreak(a, b) ==
    \/ a.score > b.score
    \/ a.score = b.score /\ FusedScore(a) > FusedScore(b)
SortsBefore(a, b) ==
    \/ a.score > b.score
    \/ a.score = b.score /\ FusedScore(a) > FusedScore(b)
    \/ a.score = b.score /\ FusedScore(a) = FusedScore(b)
         /\ a.chunk.chunk_id < b.chunk.chunk_id

\* sorted() is stable: x goes behind every element that does not sort after it
RECURSIVE InsertSorted(_, _)
InsertSorted(s, x) ==
    IF s = << >> THEN <<x>>
    ELSE IF SortsBefore(x, Last(s))
         THEN Append(InsertSorted(SubSeq(s, 1, Len(s) - 1), x), Last(s))
         ELSE Append(s, x)

\* _sorted_chunks
RECURSIVE SortedChunks(_)
SortedChunks(chunks) ==
    IF chunks = << >> THEN << >>
    ELSE InsertSorted(SortedChunks(SubSeq(chunks, 1, Len(chunks) - 1)), Last(chunks))

\* math.ceil(k / 2)
CeilHalf(k) == (k + 1) \div 2

\* resolved_top_k = max(1, top_k or config.top_k); top_k 0 stands for None too
ResolvedTopK(top_k, config) == Max(1, IF top_k # 0 THEN top_k ELSE config.top_k)

\* target_unique_nodes (reranker.py:84-94)
TargetUniqueNodesNoCap(ranked, config, k) ==
    IF config.rerank_diversify THEN CeilHalf(k) ELSE 0
TargetUniqueNodes(ranked, config, k) ==
    LET available_unique_nodes ==
            Cardinality({ranked[i].chunk.source_node_id : i \in 1 .. Len(ranked)})
    IN  IF config.rerank_diversify
        THEN IF config.rerank_min_unique_nodes > 0
             THEN Min(available_unique_nodes, Min(k, config.rerank_min_unique_nodes))
             ELSE Min(available_unique_nodes, Min(k, CeilHalf(k)))
        ELSE 0

\* the seeding loop walking ranked from its last candidate to its first
SeedLoopFromLowestRank(ranked, i, selected, seeded_nodes, target_unique_nodes, k) ==
    LET Seen(j) == \E m \in (j + 1) .. Len(ranked) :
                       ranked[m].chunk.source_node_id = ranked[j].chunk.source_node_id
        firsts == SelectSeq([j \in 1 .. Len(ranked) |-> Len(ranked) + 1 - j],
                            LAMBDA j : ~Seen(j))
    IN  [j \in 1 .. Min(Len(firsts), Min(target_unique_nodes, k)) |-> ranked[firsts[j]]]

\* the seeding loop (reranker.py:101-109), from position i of ranked on
RECURSIVE SeedLoop(_, _, _, _, _, _)
SeedLoop(ranked, i, selected, seeded_nodes, target_unique_nodes, k) ==
    IF i > Len(ranked) THEN selected
    ELSE LET item == ranked[i]
             node_id == item.chunk.source_node_id
         IN  IF node_id \in seeded_nodes
             THEN SeedLoop(ranked, i + 1, selected, seeded_nodes, target_unique_nodes, k)
             ELSE LET selected2 == Append(selected, item)
                      seeded2 == seeded_nodes \cup {node_id}
                  IN  IF Cardinality(seeded2) >= target_unique_nodes \/ Len(selected2) >= k
                      THEN selected2
                      ELSE SeedLoop(ranked, i + 1, selected2, seeded2, target_unique_nodes, k)

\* the fill loop (reranker.py:111-117), from position i of ranked on
RECURSIVE FillLoop(_, _, _, _)
FillLoop(ranked, i, selected, k) ==
    IF i > Len(ranked) \/ Len(selected) >= k THEN selected
    ELSE IF ranked[i].oid \in {selected[j].oid : j \in 1 .. Len(selected)}
         THEN FillLoop(ranked, i + 1, selected, k)
         ELSE FillLoop(ranked, i + 1, Append(selected, ranked[i]), k)

\* _select_with_node_diversity
SelectPlainTopK(scored_chunks, config, resolved_top_k) ==
    LET ranked == SortedChunks(scored_chunks)
    IN  SubSeq(ranked, 1, Min(resolved_top_k, Len(ranked)))
SelectUnsorted(scored_chunks, config, resolved_top_k) ==
    LET ranked == SortedChunks(scored_chunks)
        k == Min(resolved_top_k, Len(ranked))
        target_unique_nodes == TargetUniqueNodes(ranked, config, k)
        seeds == IF config.rerank_diversify /\ target_unique_nodes > 0
                 THEN SeedLoop(ranked, 1, << >>, {}, target_unique_nodes, k)
                 ELSE << >>
    IN  IF scored_chunks = << >> THEN << >> ELSE FillLoop(ranked, 1, seeds, k)
SelectAlwaysDiversify(scored_chunks, config, resolved_top_k) ==
    LET ranked == SortedChunks(scored_chunks)
        k == Min(resolved_top_k, Len(ranked))
        target_unique_nodes ==
            TargetUniqueNodes(ranked, [config EXCEPT !.rerank_diversify = TRUE], k)
        seeds == IF target_unique_nodes > 0
                 THEN SeedLoop(ranked, 1, << >>, {}, target_unique_nodes, k)
                 ELSE << >>
    IN  IF scored_chunks = << >> THEN << >>
        ELSE SortedChunks(FillLoop(ranked, 1, seeds, k))
SelectWithNodeDiversity(scored_chunks, config, resolved_top_k) ==
    IF scored_chunks = << >> THEN << >>
    ELSE LET ranked == SortedChunks(scored_chunks)
             k == Min(resolved_top_k, Len(ranked))
             target_unique_nodes == TargetUniqueNodes(ranked, config, k)
             seeds == IF config.rerank_diversify /\ target_unique_nodes > 0
                      THEN SeedLoop(ranked, 1, << >>, {}, target_unique_nodes, k)
                      ELSE << >>
         IN  SortedChunks(FillLoop(ranked, 1, seeds, k))

NoReply == [kind |-> "none", scores |-> << >>]
RaisedReply == [kind |-> "raise", scores |-> << >>]
ScoresReply(scores) == [kind |-> "scores", scores |-> scores]

\* the loop of reranker.py:63-65 with a fresh retrieval_detail per item
ApplyScoresToFreshDetail(retrieved_chunks, scores) ==
    [i \in 1 .. Len(retrieved_chunks) |->
        IF i <= Len(scores)
        THEN [retrieved_chunks[i] EXCEPT
                !.retrieval_detail = [rerank_score |-> Round4(scores[i])],
                !.score = scores[i]]
        ELSE retrieved_chunks[i]]

\* the positions of the list at which the loop of reranker.py:63-65 assigns
\* to the object that lies at position i
ScoreWrites(retrieved_chunks, scores, i) ==
    {j \in 1 .. Len(retrieved_chunks) :
        j <= Len(scores) /\ retrieved_chunks[j].oid = retrieved_chunks[i].oid}

\* the loop of reranker.py:63-65: rerank_score is added, score overwritten.
\* The assignments are made to the objects, in the order of the list, so an
\* object that lies at several positions holds at each of them what the last
\* assignment to it wrote
ApplyScores(retrieved_chunks, scores) ==
    [i \in 1 .. Len(retrieved_chunks) |->
        IF ScoreWrites(retrieved_chunks, scores, i) = {} THEN retrieved_chunks[i]
        ELSE LET last == CHOOSE j \in ScoreWrites(retrieved_chunks, scores, i) :
                             \A h \in ScoreWrites(retrieved_chunks, scores, i) : h <= j
             IN  [retrieved_chunks[i] EXCEPT
                     !.retrieval_detail = DictSet(@, "rerank_score", Round4(scores[last])),
                     !.score = scores[last]]]

\* the documents and top_n _score_candidates hands to client.rerank
RerankCallTopNTruncated(retrieved_chunks, resolved_top_k) == {resolved_top_k}
RerankCallTopN(retrieved_chunks, resolved_top_k) == {}
RerankCallDocuments(retrieved_chunks) ==
    [i \in 1 .. Len(retrieved_chunks) |-> retrieved_chunks[i].chunk.text]

\* _score_candidates uses the backend only with a client and mock = False
UsesBackendWithClient(client, mock) == client
UsesBackend(client, mock) == ~(mock \/ ~client)

\* _score_candidates: the list after the call, given what client.rerank did
ScoreCandidatesKeepPartial(retrieved_chunks, client, mock, reply) ==
    IF ~UsesBackend(client, mock) \/ reply.kind # "scores" THEN retrieved_chunks
    ELSE ApplyScores(retrieved_chunks, reply.scores)
ScoreCandidates(retrieved_chunks, client, mock, reply) ==
    IF ~UsesBackend(client, mock) THEN retrieved_chunks
    ELSE IF reply.kind # "scores" \/ Len(reply.scores) # Len(retrieved_chunks)
         THEN retrieved_chunks
         ELSE ApplyScores(retrieved_chunks, reply.scores)

(***************************************************************************)
(* Strings.  A Python str is a sequence of one-character strings, so that  *)
(* strip, lower, the token pattern and the substring test are computed.    *)
(* The texts of the model are ASCII: no CJK character occurs, which is the *)
(* branch of tokenize that uses EN_TOKEN_RE alone.                         *)
(***************************************************************************)
LowerLetters ==
    <<"a", "b", "c", "d", "e", "f", "g", "h", "i", "j", "k", "l", "m",
      "n", "o", "p", "q", "r", "s", "t", "u", "v", "w", "x", "y", "z">>
UpperLetters ==
    <<"A", "B", "C", "D", "E", "F", "G", "H", "I", "J", "K", "L", "M",
      "N", "O", "P", "Q", "R", "S", "T", "U", "V", "W", "X", "Y", "Z">>
DigitChars == <<"0", "1", "2", "3", "4", "5", "6", "7", "8", "9">>

\* the characters of [A-Za-z0-9_]
WordChars ==
    SeqToSet(LowerLetters) \cup SeqToSet(UpperLetters) \cup SeqToSet(DigitChars) \cup {"_"}

\* the ASCII characters str.strip() removes and \s matches: blank, \t, \n, \r,
\* \f, and the control characters 0x0b and 0x1c .. 0x1f, written as they are
Whitespace == {" ", "\t", "\n", "\r", "\f", "", "", "", "", ""}

LowerChar(c) ==
    IF \E i \in 1 .. Len(UpperLetters) : UpperLetters[i] = c
    THEN LowerLetters[CHOOSE i \in 1 .. Len(UpperLetters) : UpperLetters[i] = c]
    ELSE c

\* s.lower()
StrLower(s) == [i \in 1 .. Len(s) |-> LowerChar(s[i])]

\* s.strip()
StrStrip(s) ==
    LET kept == {i \in 1 .. Len(s) : s[i] \notin Whitespace}
    IN  IF kept = {} THEN << >>
        ELSE SubSeq(s, CHOOSE i \in kept : \A j \in kept : i <= j,
                       CHOOSE i \in kept : \A j \in kept : i >= j)

\* needle in hay
StrContains(needle, hay) ==
    \E i \in 0 .. (Len(hay) - Len(needle)) : SubSeq(hay, i + 1, i + Len(needle)) = needle

\* EN_TOKEN_RE.findall(s), scanning s from position i
RECURSIVE FindAllWords(_, _, _, _)
FindAllWords(s, i, word, found) ==
    IF i > Len(s) THEN (IF word = << >> THEN found ELSE Append(found, word))
    ELSE IF s[i] \in WordChars
         THEN FindAllWords(s, i + 1, Append(word, s[i]), found)
         ELSE FindAllWords(s, i + 1, << >>,
                           IF word = << >> THEN found ELSE Append(found, word))

\* tokenizer.py
STOPWORDS ==
    {<<"t", "h", "e">>, <<"a">>, <<"a", "n">>, <<"a", "n", "d">>, <<"o", "r">>,
     <<"i", "s">>, <<"a", "r", "e">>, <<"t", "o">>, <<"o", "f">>, <<"i", "n">>,
     <<"o", "n">>, <<"f", "o", "r">>, <<"w", "i", "t", "h">>}

NotStopword(token) == token \notin STOPWORDS

\* tokenize
Tokenize(text) ==
    LET normalized == StrLower(StrStrip(text))
    IN  IF normalized = << >> THEN << >>
        ELSE SelectSeq(FindAllWords(normalized, 1, << >>, << >>), NotStopword)

\* a string literal of the source, kept whole
Literal(s) == [lit |-> s, chars |-> << >>]
\* a string computed at run time
Text(chars) == [lit |-> "", chars |-> chars]

(***************************************************************************)
(* JSON values, as json.loads returns them.  An object is a map from keys  *)
(* to values; numbers of the model are the one-digit integers.             *)
(***************************************************************************)
JNull == [t |-> "null"]
JBool(b) == [t |-> "bool", b |-> b]
JNum(n) == [t |-> "num", n |-> n]
JStr(s) == [t |-> "str", s |-> s]
JList(items) == [t |-> "list", items |-> items]
JObj(fields) == [t |-> "obj", fields |-> fields]

EmptyDict == [key \in {} |-> JNull]

\* str(value) for the values that are not containers
PyStr(value) ==
    CASE value.t = "str" -> value.s
      [] value.t = "null" -> <<"N", "o", "n", "e">>
      [] value.t = "bool" -> IF value.b THEN <<"T", "r", "u", "e">>
                             ELSE <<"F", "a", "l", "s", "e">>
      [] value.t = "num" -> <<DigitChars[value.n + 1]>>

\* iterating a value with `for item in value`: a list gives its items, a
\* string its characters, an object its keys; None, numbers and booleans
\* raise TypeError
IsIterable(value) == value.t \in {"list", "str", "obj"}

\* a value the model does not hold: the operator is not defined there
OutsideTheModel(what) == CHOOSE v \in {} : v = what

\* a key as a str: its characters
KeyChars(key) == [i \in 1 .. Len(key) |-> SubSeq(key, i, i)]

\* the keys of a dict in the order of iteration.  A dict iterates in the
\* order of the document, which the map does not hold: the keys of a dict
\* with two keys or more are outside the model
KeysInOrder(fields) ==
    IF Cardinality(DOMAIN fields) > 1 THEN OutsideTheModel("the order of the keys")
    ELSE [i \in 1 .. Cardinality(DOMAIN fields) |-> CHOOSE key \in DOMAIN fields : TRUE]

IterItems(value) ==
    CASE value.t = "list" -> value.items
      [] value.t = "str" -> [i \in 1 .. Len(value.s) |-> JStr(<<value.s[i]>>)]
      [] value.t = "obj" -> [i \in 1 .. Len(KeysInOrder(value.fields)) |->
                                JStr(KeyChars(KeysInOrder(value.fields)[i]))]

(***************************************************************************)
(* node_locator.py.  A tree node is a record                               *)
(*   [node_id, is_leaf, heading, summary, children]                        *)
(* with is_leaf {} for a missing is_leaf key and {b} for the boolean b.    *)
(***************************************************************************)
TreeNode(node_id, is_leaf, heading, summary, children) ==
    [node_id |-> node_id, is_leaf |-> is_leaf, heading |-> heading,
     summary |-> summary, children |-> children]

NodeLocateResult(node_id, sub_query) == [node_id |-> node_id, sub_query |-> sub_query]

RootId == <<"r", "o", "o", "t">>

Reversed(s) == [i \in 1 .. Len(s) |-> s[Len(s) + 1 - i]]

\* _iter_nodes: the loop over the stack
RECURSIVE IterStack(_, _)
IterStack(stack, result) ==
    IF stack = << >> THEN result
    ELSE LET current == Last(stack)
         IN  IterStack(SubSeq(stack, 1, Len(stack) - 1) \o Reversed(current.children),
                       Append(result, current))

IterNodes(node) == IterStack(<<node>>, << >>)

IsLeafNode(node) ==
    LET is_leaf == IF node.is_leaf = {} THEN node.children = << >>
                   ELSE TRUE \in node.is_leaf
    IN  is_leaf /\ node.node_id # RootId

\* _leaf_nodes
LeafNodes(tree_data) == SelectSeq(IterNodes(tree_data.tree), IsLeafNode)

\* f"{heading} {summary}".strip()
NodeText(node) == StrStrip(node.heading \o <<" ">> \o node.summary)

\* score of _keyword_locate in quarter points: 4 for a shared token, 1 for a
\* query token that is a substring of the lower-cased text
KeywordScoreNoSubstring(query_tokens, node) ==
    4 * Cardinality(query_tokens \cap SeqToSet(Tokenize(NodeText(node))))
KeywordScoreBoostForSharedTokens(query_tokens, node) ==
    5 * Cardinality(query_tokens \cap SeqToSet(Tokenize(NodeText(node))))
KeywordScore(query_tokens, node) ==
    LET text == NodeText(node)
        node_tokens == SeqToSet(Tokenize(text))
        lowered == StrLower(text)
    IN  4 * Cardinality(query_tokens \cap node_tokens)
          + Cardinality({token \in query_tokens :
                            token # << >> /\ StrContains(token, lowered)})

\* sorted(candidates, key=score, reverse=True) keeps equal scores in order
RECURSIVE InsertByScore(_, _)
InsertByScore(ranked, c) ==
    IF ranked = << >> THEN <<c>>
    ELSE IF c.score > Last(ranked).score
         THEN Append(InsertByScore(SubSeq(ranked, 1, Len(ranked) - 1), c), Last(ranked))
         ELSE Append(ranked, c)

RECURSIVE SortedByScore(_)
SortedByScore(candidates) ==
    IF candidates = << >> THEN << >>
    ELSE InsertByScore(SortedByScore(SubSeq(candidates, 1, Len(candidates) - 1)),
                       Last(candidates))

HasNodeId(candidate) == candidate.node.node_id # << >>

KeywordThinking == Literal("Keyword fallback based on heading and summary matching.")

\* _keyword_locate
KeywordLocate(query, tree_data, top_k) ==
    LET query_tokens == SeqToSet(Tokenize(query))
        leaves == LeafNodes(tree_data)
        candidates == [i \in 1 .. Len(leaves) |->
                          [score |-> KeywordScore(query_tokens, leaves[i]),
                           node |-> leaves[i]]]
        ranked == SortedByScore(candidates)
        head == SubSeq(ranked, 1, Min(Max(1, top_k), Len(ranked)))
        kept == SelectSeq(head, HasNodeId)
        selected == IF kept = << >> /\ candidates # << >> THEN <<candidates[1]>> ELSE kept
    IN  [results |-> [i \in 1 .. Len(selected) |->
                         NodeLocateResult(selected[i].node.node_id, query)],
         thinking |-> KeywordThinking]

\* What client.chat_completion can do: raise RuntimeError, or return a text.
\* The text is given by what json.loads makes of it:
\*   json    : the text is the JSON document `value`
\*   wrapped : prose around the JSON object `value`; json.loads rejects it,
\*             the pattern \{.*\} finds the object
\*   braces  : json.loads rejects it, the pattern finds a {...} span that is
\*             not JSON either
\*   prose   : json.loads rejects it and it has no {...} span
NoChat == [kind |-> "none", form |-> "none", value |-> JNull]
ChatRaised == [kind |-> "raise", form |-> "none", value |-> JNull]
ChatText(form, value) == [kind |-> "text", form |-> form, value |-> value]

\* _extract_json_payload: ok is FALSE when it raises json.JSONDecodeError
ExtractJsonPayload(text) ==
    CASE text.form = "json" -> [ok |-> TRUE, value |-> text.value]
      [] text.form = "wrapped" -> [ok |-> TRUE, value |-> text.value]
      [] text.form = "braces" -> [ok |-> FALSE, value |-> JNull]
      [] text.form = "prose" -> [ok |-> FALSE, value |-> JNull]

LocateReturned(results, thinking) ==
    [status |-> "returned", results |-> results, thinking |-> thinking, error |-> "none"]
LocateRaised(error) ==
    [status |-> "raised", results |-> << >>, thinking |-> Literal(""), error |-> error]

\* resolved_top_k = max(1, min(top_k or config.top_k, 5)); top_k 0 stands for
\* None too
LocateTopK(top_k, config) == Max(1, Min(IF top_k # 0 THEN top_k ELSE config.top_k, 5))

\* the loop over raw_results without the test `node_id not in leaf_ids`
RECURSIVE LocateLoopAnyNodeId(_, _, _, _, _, _)
LocateLoopAnyNodeId(items, i, results, leaf_ids, query, resolved_top_k) ==
    IF i > Len(items) THEN results
    ELSE LET item == items[i]
         IN  IF item.t # "obj"
             THEN LocateLoopAnyNodeId(items, i + 1, results, leaf_ids, query, resolved_top_k)
             ELSE LET node_id == StrStrip(PyStr(DictGet(item.fields, "node_id", JStr(<< >>))))
                      stripped == StrStrip(PyStr(DictGet(item.fields, "sub_query", JStr(query))))
                      sub_query == IF stripped # << >> THEN stripped ELSE query
                      results2 == Append(results, NodeLocateResult(node_id, sub_query))
                  IN  IF Len(results2) >= resolved_top_k THEN results2
                      ELSE LocateLoopAnyNodeId(items, i + 1, results2, leaf_ids, query,
                                               resolved_top_k)

\* the loop over raw_results (node_locator.py:166-175), from item i on
RECURSIVE LocateLoop(_, _, _, _, _, _)
LocateLoop(items, i, results, leaf_ids, query, resolved_top_k) ==
    IF i > Len(items) THEN results
    ELSE LET item == items[i]
         IN  IF item.t # "obj"
             THEN LocateLoop(items, i + 1, results, leaf_ids, query, resolved_top_k)
             ELSE LET node_id == StrStrip(PyStr(DictGet(item.fields, "node_id", JStr(<< >>))))
                      stripped == StrStrip(PyStr(DictGet(item.fields, "sub_query", JStr(query))))
                      sub_query == IF stripped # << >> THEN stripped ELSE query
                      results2 == Append(results, NodeLocateResult(node_id, sub_query))
                  IN  IF node_id \notin leaf_ids
                      THEN LocateLoop(items, i + 1, results, leaf_ids, query, resolved_top_k)
                      ELSE IF Len(results2) >= resolved_top_k THEN results2
                      ELSE LocateLoop(items, i + 1, results2, leaf_ids, query, resolved_top_k)

\* locate_nodes, given what client.chat_completion does when it is called
LocateNodes(query, tree_data, config, client, mock, top_k, reply) ==
    LET resolved_top_k == LocateTopK(top_k, config)
        keyword == KeywordLocate(query, tree_data, resolved_top_k)
        fallback == LocateReturned(keyword.results, keyword.thinking)
    IN  IF mock \/ ~client THEN fallback
        ELSE IF reply.kind = "raise" THEN fallback
        ELSE LET extracted == ExtractJsonPayload(reply)
                 payload == extracted.value
             IN  IF ~extracted.ok THEN fallback
                 ELSE IF payload.t # "obj" THEN LocateRaised("AttributeError")
                 ELSE LET leaves == LeafNodes(tree_data)
                          leaf_ids == {leaves[i].node_id : i \in 1 .. Len(leaves)}
                          raw_results == DictGet(payload.fields, "results", JList(<< >>))
                      IN  IF ~IsIterable(raw_results) THEN LocateRaised("TypeError")
                          ELSE LET results == LocateLoop(IterItems(raw_results), 1, << >>,
                                                         leaf_ids, query, resolved_top_k)
                                   stripped == StrStrip(PyStr(DictGet(payload.fields, "thinking",
                                                                      JStr(<< >>))))
                               IN  IF results = << >> THEN fallback
                                   ELSE LocateReturned(results,
                                            IF stripped # << >> THEN Text(stripped)
                                            ELSE Literal("LLM returned candidate nodes."))

(***************************************************************************)
(* similarity.py and hybrid_retriever.py.  A score of 1.0 is ScoreOne      *)
(* units.  The code computes with floats; the model holds the values that  *)
(* are whole numbers of units and computes them exactly.  An operator is   *)
(* not defined on an input that takes it out of these values: a vector     *)
(* whose norm is not an integer, a quotient that is not a whole number of  *)
(* units, an order that the rounding of the floats decides.  The           *)
(* embeddings, scores and weights of the specifications are chosen inside  *)
(* this domain.                                                            *)
(***************************************************************************)
ScoreOne == 10000 * Tick

\* a / b, defined when the quotient is an integer
ExactQuotient(a, b) == CHOOSE q \in {a \div b} : q * b = a

RECURSIVE SumSeq(_)
SumSeq(s) == IF s = << >> THEN 0 ELSE Head(s) + SumSeq(Tail(s))

\* math.sqrt of a perfect square
Sqrt(n) == CHOOSE r \in 0 .. n : r * r = n

\* cosine_similarity
CosineSimilarity(vec_a, vec_b) ==
    IF vec_a = << >> \/ vec_b = << >> \/ Len(vec_a) # Len(vec_b) THEN 0
    ELSE LET dot == SumSeq([i \in 1 .. Len(vec_a) |-> vec_a[i] * vec_b[i]])
             norm_a == Sqrt(SumSeq([i \in 1 .. Len(vec_a) |-> vec_a[i] * vec_a[i]]))
             norm_b == Sqrt(SumSeq([i \in 1 .. Len(vec_b) |-> vec_b[i] * vec_b[i]]))
         IN  IF norm_a = 0 \/ norm_b = 0 THEN 0
             ELSE ExactQuotient(dot * ScoreOne, norm_a * norm_b)

SeqMin(s) == CHOOSE v \in SeqToSet(s) : \A w \in SeqToSet(s) : v <= w
SeqMax(s) == CHOOSE v \in SeqToSet(s) : \A w \in SeqToSet(s) : v >= w

\* min_max_normalize without the minimum: every value over the maximum
NormalizeByMaximum(values) ==
    IF values = << >> THEN << >>
    ELSE IF SeqMax(values) = 0 THEN [i \in 1 .. Len(values) |-> 0]
    ELSE [i \in 1 .. Len(values) |-> (values[i] * ScoreOne) \div SeqMax(values)]

\* min_max_normalize
MinMaxNormalize(values) ==
    IF values = << >> THEN << >>
    ELSE LET minimum == SeqMin(values)
             maximum == SeqMax(values)
             gap == maximum - minimum
         IN  IF maximum = minimum THEN [i \in 1 .. Len(values) |-> 0]
             ELSE [i \in 1 .. Len(values) |->
                      ExactQuotient((values[i] - minimum) * ScoreOne, gap)]

IndexedNode(node_id, heading_path, chunks, bm25_index) ==
    [node_id |-> node_id, heading_path |-> heading_path, chunks |-> chunks,
     bm25_index |-> bm25_index]

\* node.bm25_index.get_scores(tokenized_query): the index is the object of
\* rank_bm25 or FallbackBM25, given by the scores it holds for the query;
\* without a query token every document scores 0
Bm25GetScores(bm25_index, tokenized_query) ==
    IF tokenized_query = << >> THEN [i \in 1 .. Len(bm25_index.scores) |-> 0]
    ELSE bm25_index.scores

\* dense_weight * dense + bm25_weight * bm25, weights in tenths
FusedOf(dense_weight, bm25_weight, dense, bm25) ==
    ExactQuotient(dense_weight * dense + bm25_weight * bm25, 10)

\* sorted() compares the fused scores as the floats the code computed.  Two
\* scores that differ as numbers differ the same way as floats.  Two scores
\* that are equal as numbers are equal as floats when each of their two
\* terms is the same product (the same normalized value, or the weight 0.0),
\* or when the normalized values are all 0.0 or 1.0, which the floats hold
\* exactly; elsewhere the rounding of the floats decides the order
FloatsOrderAsNumbers(dense_weight, bm25_weight, dense_norm, bm25_norm) ==
    \A i \in 1 .. Len(dense_norm), j \in 1 .. Len(dense_norm) :
        FusedOf(dense_weight, bm25_weight, dense_norm[i], bm25_norm[i])
            = FusedOf(dense_weight, bm25_weight, dense_norm[j], bm25_norm[j])
        => \/ /\ dense_weight = 0 \/ dense_norm[i] = dense_norm[j]
              /\ bm25_weight = 0 \/ bm25_norm[i] = bm25_norm[j]
           \/ {dense_norm[i], dense_norm[j], bm25_norm[i], bm25_norm[j]} \subseteq {0, ScoreOne}

\* hybrid_retrieve; query_embedding is what embed_query_fn(query) returns,
\* first_oid numbers the RetrievedChunk objects the call creates
HybridRetrieve(node, query, top_k, dense_weight, bm25_weight, query_embedding, first_oid) ==
    LET chunks == node.chunks
        n == Len(chunks)
        dense_scores == [i \in 1 .. n |-> CosineSimilarity(query_embedding, chunks[i].embedding)]
        tokenized_query == Tokenize(query)
        raw_scores == IF node.bm25_index # {}
                      THEN Bm25GetScores(CHOOSE b \in node.bm25_index : TRUE, tokenized_query)
                      ELSE [i \in 1 .. n |-> 0]
        bm25_scores == [i \in 1 .. n |-> IF i <= Len(raw_scores) THEN raw_scores[i] ELSE 0]
        dense_norm == MinMaxNormalize(dense_scores)
        bm25_norm == MinMaxNormalize(bm25_scores)
        candidates == [i \in 1 .. n |->
                          [score |-> FusedOf(dense_weight, bm25_weight,
                                                dense_norm[i], bm25_norm[i]),
                           chunk |-> chunks[i], dense |-> dense_scores[i],
                           bm25 |-> bm25_scores[i]]]
        ranked == IF FloatsOrderAsNumbers(dense_weight, bm25_weight, dense_norm, bm25_norm)
                  THEN SortedByScore(candidates)
                  ELSE OutsideTheModel("the rounding of the floats")
        resolved_top_k == Max(1, top_k)
    IN  IF chunks = << >> THEN << >>
        ELSE [i \in 1 .. Min(resolved_top_k, n) |->
                 RetrievedChunk(first_oid + i - 1, ranked[i].chunk, ranked[i].score,
                                [dense_score |-> Round4(ranked[i].dense),
                                 bm25_score |-> Round4(ranked[i].bm25),
                                 fused_score |-> Round4(ranked[i].score)])]

(***************************************************************************)
(* embedder.py                                                             *)
(***************************************************************************)
\* the default dim of _hash_embedding and MockEmbedder
HashDim == 64

\* a value of 1.0 in a hash embedding is HashUnit units: (byte / 255.0) * 2.0
\* - 1.0 is 2 * byte - 255 units
HashUnit == 255

\* the ASCII characters from " " (32) to "_" (95) and from "a" (97) to "~"
\* (126); the character 96 cannot be written in a string here
AsciiToUnderscore ==
    <<" ", "!", "\"", "#", "$", "%", "&", "'", "(", ")", "*", "+", ",", "-", ".", "/",
      "0", "1", "2", "3", "4", "5", "6", "7", "8", "9", ":", ";", "<", "=", ">", "?",
      "@", "A", "B", "C", "D", "E", "F", "G", "H", "I", "J", "K", "L", "M", "N", "O",
      "P", "Q", "R", "S", "T", "U", "V", "W", "X", "Y", "Z", "[", "\\", "]", "^", "_">>
AsciiFromLowerA == LowerLetters \o <<"{", "|", "}", "~">>

\* the ASCII control characters of Whitespace, with their codes
AsciiControl ==
    ("\t" :> 9) @@ ("\n" :> 10) @@ ("" :> 11) @@ ("\f" :> 12) @@ ("\r" :> 13)
        @@ ("" :> 28) @@ ("" :> 29) @@ ("" :> 30) @@ ("" :> 31)

\* text.encode("utf-8"): a byte per character, its code (the texts are ASCII)
Utf8(text) ==
    [i \in 1 .. Len(text) |->
        IF text[i] \in DOMAIN AsciiControl THEN AsciiControl[text[i]]
        ELSE IF text[i] \in SeqToSet(AsciiToUnderscore)
        THEN 31 + (CHOOSE c \in 1 .. Len(AsciiToUnderscore) : AsciiToUnderscore[c] = text[i])
        ELSE 96 + (CHOOSE c \in 1 .. Len(AsciiFromLowerA) : AsciiFromLowerA[c] = text[i])]

(***************************************************************************)
(* hashlib.sha256, as FIPS 180-4 gives it.  A 32-bit word is the pair      *)
(* <<high, low>> of its 16-bit halves.                                     *)
(***************************************************************************)
\* 2 ** n for n in 0 .. 16
TwoTo(n) ==
    <<1, 2, 4, 8, 16, 32, 64, 128, 256, 512, 1024, 2048, 4096, 8192, 16384, 32768, 65536>>[n + 1]

\* a 32-bit word is the pair <<high half, low half>> of 16-bit numbers
RECURSIVE BitXor(_, _)
BitXor(a, b) ==
    IF a = 0 THEN b ELSE IF b = 0 THEN a
    ELSE ((a + b) % 2) + 2 * BitXor(a \div 2, b \div 2)

RECURSIVE BitAnd(_, _)
BitAnd(a, b) ==
    IF a = 0 \/ b = 0 THEN 0
    ELSE (a % 2) * (b % 2) + 2 * BitAnd(a \div 2, b \div 2)

WordXor(x, y) == <<BitXor(x[1], y[1]), BitXor(x[2], y[2])>>
WordAnd(x, y) == <<BitAnd(x[1], y[1]), BitAnd(x[2], y[2])>>
WordNot(x) == <<65535 - x[1], 65535 - x[2]>>

\* the sum of the words, modulo 2 ** 32
WordSum(words) ==
    LET low == SumSeq([i \in 1 .. Len(words) |-> words[i][2]])
        high == SumSeq([i \in 1 .. Len(words) |-> words[i][1]]) + (low \div 65536)
    IN  <<high % 65536, low % 65536>>

RotateRight(x, n) ==
    LET y == IF n >= 16 THEN <<x[2], x[1]>> ELSE x
        m == n % 16
    IN  <<(y[1] \div TwoTo(m)) + (y[2] % TwoTo(m)) * TwoTo(16 - m),
          (y[2] \div TwoTo(m)) + (y[1] % TwoTo(m)) * TwoTo(16 - m)>>

\* x >> n for n < 16
ShiftRight(x, n) ==
    <<x[1] \div TwoTo(n), (x[2] \div TwoTo(n)) + (x[1] % TwoTo(n)) * TwoTo(16 - n)>>

SmallSigma0(x) == WordXor(WordXor(RotateRight(x, 7), RotateRight(x, 18)), ShiftRight(x, 3))
SmallSigma1(x) == WordXor(WordXor(RotateRight(x, 17), RotateRight(x, 19)), ShiftRight(x, 10))
BigSigma0(x) == WordXor(WordXor(RotateRight(x, 2), RotateRight(x, 13)), RotateRight(x, 22))
BigSigma1(x) == WordXor(WordXor(RotateRight(x, 6), RotateRight(x, 11)), RotateRight(x, 25))
Choice(x, y, z) == WordXor(WordAnd(x, y), WordAnd(WordNot(x), z))
Majority(x, y, z) == WordXor(WordXor(WordAnd(x, y), WordAnd(x, z)), WordAnd(y, z))

\* the round constants and the initial hash value of SHA-256
RoundConstants ==
    <<
      <<17034, 12184>>, <<28983, 17553>>, <<46528, 64463>>, <<59829, 56229>>,
      <<14678, 49755>>, <<23025, 4593>>, <<37439, 33444>>, <<43804, 24277>>,
      <<55303, 43672>>, <<4739, 23297>>, <<9265, 34238>>, <<21772, 32195>>,
      <<29374, 23924>>, <<32990, 45566>>, <<39900, 1703>>, <<49563, 61812>>,
      <<58523, 27073>>, <<61374, 18310>>, <<4033, 40390>>, <<9228, 41420>>,
      <<11753, 11375>>, <<19060, 33962>>, <<23728, 43484>>, <<30457, 35034>>,
      <<38974, 20818>>, <<43057, 50797>>, <<45059, 10184>>, <<48985, 32711>>,
      <<50912, 3059>>, <<54695, 37191>>, <<1738, 25425>>, <<5161, 10599>>,
      <<10167, 2693>>, <<11803, 8504>>, <<19756, 28156>>, <<21304, 3347>>,
      <<25866, 29524>>, <<30314, 2747>>, <<33218, 51502>>, <<37490, 11397>>,
      <<41663, 59553>>, <<43034, 26187>>, <<49739, 35696>>, <<51052, 20899>>,
      <<53650, 59417>>, <<54937, 1572>>, <<62478, 13701>>, <<4202, 41072>>,
      <<6564, 49430>>, <<7735, 27656>>, <<10056, 30540>>, <<13488, 48309>>,
      <<14620, 3251>>, <<20184, 43594>>, <<23452, 51791>>, <<26670, 28659>>,
      <<29839, 33518>>, <<30885, 25455>>, <<33992, 30740>>, <<36039, 520>>,
      <<37054, 65530>>, <<42064, 27883>>, <<48889, 41975>>, <<50801, 30962>>
    >>
InitialHash ==
    <<
      <<27145, 58983>>, <<47975, 44677>>, <<15470, 62322>>, <<42319, 62778>>,
      <<20750, 21119>>, <<39685, 26764>>, <<8067, 55723>>, <<23520, 52505>>
    >>

\* the message padded to whole blocks of 64 bytes: the byte 0x80, zeros, and
\* the length in bits as 8 bytes (the messages of the model are shorter than
\* 2 ** 13 bytes)
Padded(bytes) ==
    LET zeros == (119 - (Len(bytes) % 64)) % 64
        bits == 8 * Len(bytes)
    IN  bytes \o <<128>> \o [i \in 1 .. zeros |-> 0]
            \o <<0, 0, 0, 0, 0, 0, bits \div 256, bits % 256>>

\* the 16 words of block number b (from 0)
BlockWords(padded, b) ==
    [t \in 1 .. 16 |->
        <<padded[64 * b + 4 * t - 3] * 256 + padded[64 * b + 4 * t - 2],
          padded[64 * b + 4 * t - 1] * 256 + padded[64 * b + 4 * t]>>] \o << >>

\* the message schedule: 64 words from the 16 of the block
RECURSIVE Schedule(_)
Schedule(w) ==
    IF Len(w) = 64 THEN w
    ELSE Schedule(Append(w, WordSum(<<SmallSigma1(w[Len(w) - 1]), w[Len(w) - 6],
                                      SmallSigma0(w[Len(w) - 14]), w[Len(w) - 15]>>)))

\* the working variables after a round with the temporary words t1 and t2
RoundOf(v, t1, t2) ==
    <<WordSum(<<t1, t2>>), v[1], v[2], v[3], WordSum(<<v[4], t1>>), v[5], v[6], v[7]>>

AddHash(hash, v) == [i \in 1 .. 8 |-> WordSum(<<hash[i], v[i]>>)] \o << >>

\* the 8 words of the hash value as 32 bytes, big-endian
DigestOf(hash) ==
    [i \in 1 .. 32 |->
        LET half == hash[((i - 1) \div 4) + 1][(((i - 1) % 4) \div 2) + 1]
        IN  IF i % 2 = 1 THEN half \div 256 ELSE half % 256] \o << >>

\* one round on the working variables <<a, b, c, d, e, f, g, h>>
Round(v, k, w) ==
    RoundOf(v, WordSum(<<v[8], BigSigma1(v[5]), Choice(v[5], v[6], v[7]), k, w>>),
            WordSum(<<BigSigma0(v[1]), Majority(v[1], v[2], v[3])>>))

\* the 64 rounds from round t on (the test on v makes TLC compute a round
\* before it goes on to the next)
RECURSIVE Rounds(_, _, _)
Rounds(v, w, t) ==
    IF t > 64 \/ Len(v) # 8 THEN v
    ELSE Rounds(Round(v, RoundConstants[t], w[t]), w, t + 1)

\* the hash value after the block
Compress(hash, words) ==
    AddHash(hash, Rounds(hash, Schedule(words), 1))

RECURSIVE Blocks(_, _, _)
Blocks(hash, padded, b) ==
    IF 64 * b >= Len(padded) THEN hash
    ELSE Blocks(Compress(hash, BlockWords(padded, b)), padded, b + 1)

\* hashlib.sha256(bytes).digest(): 32 bytes
Sha256(bytes) ==
    DigestOf(Blocks(InitialHash, Padded(bytes), 0))

\* the bytes the loop of _hash_embedding reads: the digest, then the digest
\* of the digest, and so on, dim bytes in all
RECURSIVE HashBytes(_, _)
HashBytes(cursor, dim) ==
    IF dim <= 0 THEN << >>
    ELSE IF dim <= Len(cursor) THEN SubSeq(cursor, 1, dim)
    ELSE cursor \o HashBytes(Sha256(cursor), dim - Len(cursor))

\* (byte / 255.0) * 2.0 - 1.0 for every byte
HashValues(bytes) == [i \in 1 .. Len(bytes) |-> 2 * bytes[i] - HashUnit]

\* _hash_embedding(text, dim)
HashEmbeddingOfDim(text, dim) == HashValues(HashBytes(Sha256(Utf8(text)), dim) \o << >>)

\* n characters that repeat with period 7
CycleText(n) == [i \in 1 .. n |-> LowerLetters[((i - 1) % 7) + 1]]

\* the queries locate_nodes is called with: "ant", " The tea "
LocateQueries ==
    {<<"a", "n", "t">>, <<" ", "T", "h", "e", " ", "t", "e", "a", " ">>}

\* the texts the specifications embed with the MockEmbedder, the queries and
\* the chunk texts, with their embeddings, computed once
EmbeddedTexts == LocateQueries \cup {CycleText(n) : n \in {22, 25, 30}}
TextEmbeddings == [text \in EmbeddedTexts |-> HashEmbeddingOfDim(text, HashDim)]

\* _hash_embedding(text) with the default dim, as MockEmbedder() calls it
HashEmbedding(text) ==
    IF text \in EmbeddedTexts THEN TextEmbeddings[text] ELSE HashEmbeddingOfDim(text, HashDim)

\* build_embedder: "mock", "openai", or ValueError
BuildEmbedder(mock, client) ==
    IF mock THEN "mock" ELSE IF ~client THEN "ValueError" ELSE "openai"

\* _embed_query of run_pipeline, once embed_texts has returned
EmbedQuery(vectors) == IF vectors = << >> THEN << >> ELSE vectors[1]

(***************************************************************************)
(* synthesizer.py                                                          *)
(***************************************************************************)
InsufficientEvidence == Literal("Insufficient evidence retrieved to answer this question.")

\* the evidence dump of mock mode: the head line, then one line per item
\* with its number, heading_path and text
EvidenceDump(retrieved_chunks) ==
    [lit |-> "Based on retrieved evidence:",
     lines |-> [i \in 1 .. Len(retrieved_chunks) |->
                   [idx |-> i, heading_path |-> retrieved_chunks[i].chunk.heading_path,
                    text |-> retrieved_chunks[i].chunk.text]]]

\* synthesize calling the backend whenever there is a client and mock is off,
\* evidence or not
SynthesizeCallsBackendWithClient(retrieved_chunks, client, mock) == client /\ ~mock

SynthesizeCallsBackend(retrieved_chunks, client, mock) ==
    retrieved_chunks # << >> /\ ~(mock \/ ~client)

\* What client.chat_completion can do for the synthesis request: raise
\* (ChatRaised), or return the answer text
AnswerText(chars) == [kind |-> "text", chars |-> chars]

\* synthesize, given what client.chat_completion does when it is called
Synthesize(retrieved_chunks, client, mock, reply) ==
    IF retrieved_chunks = << >> THEN [status |-> "returned", answer |-> InsufficientEvidence]
    ELSE IF mock \/ ~client
         THEN [status |-> "returned", answer |-> EvidenceDump(retrieved_chunks)]
         ELSE IF reply.kind = "raise"
              THEN [status |-> "raised", answer |-> Literal("")]
              ELSE [status |-> "returned", answer |-> Text(reply.chars)]

(***************************************************************************)
(* pipeline.py                                                             *)
(***************************************************************************)
RagIndex(tree_data, nodes) == [tree_data |-> tree_data, nodes |-> nodes]

PipelineResult(query, step1_thinking, step1_nodes, step2_retrieved, answer) ==
    [query |-> query, step1_thinking |-> step1_thinking, step1_nodes |-> step1_nodes,
     step2_retrieved |-> step2_retrieved, answer |-> answer]

(***************************************************************************)
(* OpenAICompatibleClient: what the methods make of the JSON document that *)
(* _post_json returned.  A JSON number is an int (JNum) or a float         *)
(* (JFloat); the scores are taken in whole units.                          *)
(***************************************************************************)
JFloat(n) == [t |-> "float", n |-> n]

\* isinstance(value, int): an int, or a bool (True is 1, False is 0)
IsInt(value) == value.t \in {"num", "bool"}

IntOf(value) == IF value.t = "bool" THEN (IF value.b THEN 1 ELSE 0) ELSE value.n

RECURSIVE DigitsValue(_, _)
\* the number a string of decimal digits writes
DigitsValue(chars, acc) ==
    IF chars = << >> THEN acc
    ELSE DigitsValue(Tail(chars),
                     10 * acc + ((CHOOSE d \in 1 .. 10 : DigitChars[d] = Head(chars)) - 1))

\* digitpart of the grammar of float(): digits, with single underscores
\* between digits
IsDigitPart(chars) ==
    /\ chars # << >>
    /\ \A i \in 1 .. Len(chars) : chars[i] \in SeqToSet(DigitChars) \cup {"_"}
    /\ chars[1] # "_" /\ chars[Len(chars)] # "_"
    /\ \A i \in 1 .. (Len(chars) - 1) : ~(chars[i] = "_" /\ chars[i + 1] = "_")

OnlyDigits(chars) == SelectSeq(chars, LAMBDA c : c # "_")

\* the first position of chars that holds one of the characters, or 0
FirstOf(chars, characters) ==
    IF \E i \in 1 .. Len(chars) : chars[i] \in characters
    THEN CHOOSE i \in 1 .. Len(chars) :
             chars[i] \in characters /\ \A j \in 1 .. (i - 1) : chars[j] \notin characters
    ELSE 0

HasSign(chars) == chars # << >> /\ chars[1] \in {"+", "-"}
Unsigned(chars) == IF HasSign(chars) THEN Tail(chars) ELSE chars
SignOf(chars) == IF chars # << >> /\ chars[1] = "-" THEN -1 ELSE 1

\* the parts of a floatnumber: the digits before the point, the digits after
\* it, and the exponent with its sign
FloatMantissa(chars) ==
    IF FirstOf(chars, {"e", "E"}) = 0 THEN chars
    ELSE SubSeq(chars, 1, FirstOf(chars, {"e", "E"}) - 1)
FloatExponent(chars) ==
    IF FirstOf(chars, {"e", "E"}) = 0 THEN << >>
    ELSE SubSeq(chars, FirstOf(chars, {"e", "E"}) + 1, Len(chars))
FloatWhole(chars) ==
    IF FirstOf(FloatMantissa(chars), {"."}) = 0 THEN FloatMantissa(chars)
    ELSE SubSeq(FloatMantissa(chars), 1, FirstOf(FloatMantissa(chars), {"."}) - 1)
FloatFraction(chars) ==
    IF FirstOf(FloatMantissa(chars), {"."}) = 0 THEN << >>
    ELSE SubSeq(FloatMantissa(chars), FirstOf(FloatMantissa(chars), {"."}) + 1,
                Len(FloatMantissa(chars)))

\* floatnumber: [digitpart] "." digitpart | digitpart ["."], then an
\* optional exponent ("e" | "E") [sign] digitpart
IsFloatNumber(chars) ==
    /\ \/ IsDigitPart(FloatWhole(chars)) /\ FloatFraction(chars) = << >>
       \/ FirstOf(FloatMantissa(chars), {"."}) # 0
              /\ FloatWhole(chars) = << >> /\ IsDigitPart(FloatFraction(chars))
       \/ IsDigitPart(FloatWhole(chars)) /\ IsDigitPart(FloatFraction(chars))
    /\ \/ FirstOf(chars, {"e", "E"}) = 0
       \/ IsDigitPart(Unsigned(FloatExponent(chars)))

\* 10 ** n
RECURSIVE PowerOfTen(_)
PowerOfTen(n) == IF n = 0 THEN 1 ELSE 10 * PowerOfTen(n - 1)

\* the number a floatnumber writes is digits * 10 ** shift
FloatDigits(chars) == DigitsValue(OnlyDigits(FloatWhole(chars) \o FloatFraction(chars)), 0)
FloatShift(chars) ==
    (IF FloatExponent(chars) = << >> THEN 0
     ELSE SignOf(FloatExponent(chars))
              * DigitsValue(OnlyDigits(Unsigned(FloatExponent(chars))), 0))
    - Len(OnlyDigits(FloatFraction(chars)))
IsWholeNumber(chars) ==
    \/ FloatDigits(chars) = 0
    \/ FloatShift(chars) >= 0
    \/ FloatDigits(chars) % PowerOfTen(-FloatShift(chars)) = 0

\* a whole number is given as the number, another one as the fraction
\* <<numerator, denominator>>; a number whose digits or power of ten go
\* beyond the integers of TLC is outside the model
FloatNumberValue(chars, sign) ==
    IF FloatDigits(chars) = 0 THEN 0
    ELSE IF FloatShift(chars) >= 0 THEN sign * FloatDigits(chars) * PowerOfTen(FloatShift(chars))
    ELSE IF IsWholeNumber(chars)
    THEN sign * (FloatDigits(chars) \div PowerOfTen(-FloatShift(chars)))
    ELSE <<sign * FloatDigits(chars), PowerOfTen(-FloatShift(chars))>>

\* the characters float() skips at both ends of a str: blank, \t, \n, \r,
\* \f and 0x0b (written as it is).  The control characters 0x1c .. 0x1f,
\* which str.strip() removes, are not among them
FloatWhitespace == {" ", "\t", "\n", "\r", "\f", ""}

\* chars without the characters float() skips at both ends
FloatStrip(chars) ==
    LET kept == {i \in 1 .. Len(chars) : chars[i] \notin FloatWhitespace}
    IN  IF kept = {} THEN << >>
        ELSE SubSeq(chars, CHOOSE i \in kept : \A j \in kept : i <= j,
                           CHOOSE i \in kept : \A j \in kept : i >= j)

\* float() of a str (the whitespace of FloatWhitespace removed at both
\* ends): an optional sign, then a floatnumber, or "inf", "infinity" or
\* "nan" in any case; every other str, one with 0x1c .. 0x1f at an end
\* among them, raises ValueError.  The values that are not numbers are given
\* by name
FloatOfStr(chars) ==
    LET body == Unsigned(FloatStrip(chars))
        sign == SignOf(FloatStrip(chars))
    IN  IF StrLower(body) \in {<<"i", "n", "f">>, <<"i", "n", "f", "i", "n", "i", "t", "y">>}
        THEN [ok |-> TRUE, v |-> IF sign = 1 THEN "inf" ELSE "-inf", error |-> "none"]
        ELSE IF StrLower(body) = <<"n", "a", "n">>
        THEN [ok |-> TRUE, v |-> "nan", error |-> "none"]
        ELSE IF ~IsFloatNumber(body) THEN [ok |-> FALSE, v |-> 0, error |-> "ValueError"]
        ELSE [ok |-> TRUE, v |-> FloatNumberValue(body, sign), error |-> "none"]

\* float(value): numbers and bools convert, a str converts when it writes a
\* float and raises ValueError otherwise; None, lists and dicts raise
\* TypeError
FloatOf(value) ==
    CASE value.t \in {"num", "float"} -> [ok |-> TRUE, v |-> value.n, error |-> "none"]
      [] value.t = "bool" -> [ok |-> TRUE, v |-> IntOf(value), error |-> "none"]
      [] value.t = "str" -> FloatOfStr(value.s)
      [] OTHER -> [ok |-> FALSE, v |-> 0, error |-> "TypeError"]

\* item.get("relevance_score", item.get("score", 0.0))
ItemScore(item) ==
    DictGet(item.fields, "relevance_score", DictGet(item.fields, "score", JFloat(0)))

ScoresReturned(scores) == [status |-> "returned", scores |-> scores, error |-> "none"]
ScoresNone == [status |-> "none", scores |-> << >>, error |-> "none"]
ScoresRaised(error) == [status |-> "raised", scores |-> << >>, error |-> error]

RECURSIVE ScoresByPosition(_, _, _)
\* the loop over `data` (openai_client.py:140-148): entry idx gives score
\* idx, and the entries past the documents are left alone
ScoresByPosition(items, idx, scores) ==
    IF items = << >> \/ idx >= Len(scores) THEN ScoresReturned(scores)
    ELSE LET item == Head(items)
             score == IF item.t = "obj" THEN ItemScore(item) ELSE item
         IN  IF ~FloatOf(score).ok THEN ScoresRaised(FloatOf(score).error)
             ELSE ScoresByPosition(Tail(items), idx + 1,
                                   [scores EXCEPT ![idx + 1] = FloatOf(score).v])

\* the scores taken in the order of the entries, whatever index they name
ScoresInArrivalOrder(items, scores) == ScoresByPosition(items, 0, scores)

RECURSIVE ScoresByIndex(_, _)
\* the loop over `results` (openai_client.py:127-135): an entry that is no
\* dict, or whose index is no int of the range, is skipped
ScoresByIndex(items, scores) ==
    IF items = << >> THEN ScoresReturned(scores)
    ELSE LET item == Head(items)
         IN  IF item.t # "obj" THEN ScoresByIndex(Tail(items), scores)
             ELSE IF "index" \notin DOMAIN item.fields
                     \/ ~IsInt(item.fields["index"])
                  THEN ScoresByIndex(Tail(items), scores)
                  ELSE IF IntOf(item.fields["index"]) < 0
                          \/ IntOf(item.fields["index"]) >= Len(scores)
                       THEN ScoresByIndex(Tail(items), scores)
                       ELSE IF ~FloatOf(ItemScore(item)).ok
                            THEN ScoresRaised(FloatOf(ItemScore(item)).error)
                            ELSE ScoresByIndex(Tail(items),
                                     [scores EXCEPT ![IntOf(item.fields["index"]) + 1] =
                                         FloatOf(ItemScore(item)).v])

\* the value of `results` after lines 121-125
RerankResults(data) ==
    IF DictGet(data.fields, "results", JNull).t = "list" THEN data.fields["results"]
    ELSE IF DictGet(data.fields, "output", JNull).t = "obj"
         THEN DictGet(data.fields["output"].fields, "results", JNull)
         ELSE DictGet(data.fields, "results", JNull)

\* _extract_rerank_scores(data, documents), documents given by their number
ExtractRerankScores(data, documents) ==
    IF data.t # "obj" THEN ScoresRaised("AttributeError")
    ELSE IF RerankResults(data).t = "list"
         THEN ScoresByIndex(RerankResults(data).items, [i \in 1 .. documents |-> 0])
         ELSE IF DictGet(data.fields, "data", JNull).t = "list"
              THEN ScoresByPosition(data.fields["data"].items, 0,
                                    [i \in 1 .. documents |-> 0])
              ELSE ScoresNone

\* client.rerank once _post_json has returned `data`
\* (openai_client.py:208-212 and 222-226, the same on both hosts)
RerankScores(data, documents) ==
    IF ExtractRerankScores(data, documents).status = "none"
    THEN ScoresRaised("RuntimeError")
    ELSE ExtractRerankScores(data, documents)

\* What a client method returns or raises.
MethodReturned(value) ==
    [status |-> "returned", value |-> value, error |-> "none", message |-> ""]
MethodRaised(error, message) ==
    [status |-> "raised", value |-> JNull, error |-> error, message |-> message]

\* value[key] for a str key: a dict gives the value or KeyError, everything
\* else TypeError
GetKey(value, key) ==
    IF value.t = "obj"
    THEN (IF key \in DOMAIN value.fields
          THEN [ok |-> TRUE, v |-> value.fields[key], error |-> "none"]
          ELSE [ok |-> FALSE, v |-> JNull, error |-> "KeyError"])
    ELSE [ok |-> FALSE, v |-> JNull, error |-> "TypeError"]

\* value[0]: the first item of a list or the first character of a str, or
\* IndexError; a dict has no key 0 (KeyError); everything else TypeError
GetFirst(value) ==
    CASE value.t = "list" ->
            IF value.items # << >> THEN [ok |-> TRUE, v |-> value.items[1], error |-> "none"]
            ELSE [ok |-> FALSE, v |-> JNull, error |-> "IndexError"]
      [] value.t = "str" ->
            IF value.s # << >> THEN [ok |-> TRUE, v |-> JStr(<<value.s[1]>>), error |-> "none"]
            ELSE [ok |-> FALSE, v |-> JNull, error |-> "IndexError"]
      [] value.t = "obj" -> [ok |-> FALSE, v |-> JNull, error |-> "KeyError"]
      [] OTHER -> [ok |-> FALSE, v |-> JNull, error |-> "TypeError"]

\* data["choices"][0]["message"]["content"] (openai_client.py:170)
ChatContent(data) ==
    IF ~GetKey(data, "choices").ok THEN GetKey(data, "choices")
    ELSE IF ~GetFirst(GetKey(data, "choices").v).ok THEN GetFirst(GetKey(data, "choices").v)
    ELSE IF ~GetKey(GetFirst(GetKey(data, "choices").v).v, "message").ok
         THEN GetKey(GetFirst(GetKey(data, "choices").v).v, "message")
         ELSE GetKey(GetKey(GetFirst(GetKey(data, "choices").v).v, "message").v, "content")

RECURSIVE JoinPartTexts(_)
\* "".join(part.get("text", "") for part in content if isinstance(part, dict))
\* for parts whose text is a str
JoinPartTexts(parts) ==
    IF parts = << >> THEN << >>
    ELSE (IF Head(parts).t = "obj" THEN DictGet(Head(parts).fields, "text", JStr(<< >>)).s
          ELSE << >>) \o JoinPartTexts(Tail(parts))

\* chat_completion once _post_json has returned `data`
\* (openai_client.py:168-182); the content is a str, a list of parts, None
\* or a number
ChatCompletion(data) ==
    IF ~ChatContent(data).ok
    THEN MethodRaised("RuntimeError", "Invalid chat completion response format.")
    ELSE IF ChatContent(data).v.t = "list"
         THEN MethodReturned(StrStrip(JoinPartTexts(ChatContent(data).v.items)))
         ELSE MethodReturned(StrStrip(PyStr(ChatContent(data).v)))

RECURSIVE FloatsOf(_)
\* list(map(float, values)): the floats, or the first error
FloatsOf(values) ==
    IF values = << >> THEN [ok |-> TRUE, v |-> << >>, error |-> "none"]
    ELSE IF ~FloatOf(Head(values)).ok THEN [ok |-> FALSE, v |-> << >>, error |-> FloatOf(Head(values)).error]
         ELSE IF ~FloatsOf(Tail(values)).ok THEN FloatsOf(Tail(values))
              ELSE [ok |-> TRUE, v |-> <<FloatOf(Head(values)).v>> \o FloatsOf(Tail(values)).v,
                    error |-> "none"]

\* list(map(float, item["embedding"])) for one item of data["data"]
ItemEmbedding(item) ==
    IF ~GetKey(item, "embedding").ok THEN [ok |-> FALSE, v |-> << >>, error |-> GetKey(item, "embedding").error]
    ELSE IF ~IsIterable(GetKey(item, "embedding").v) THEN [ok |-> FALSE, v |-> << >>, error |-> "TypeError"]
         ELSE FloatsOf(IterItems(GetKey(item, "embedding").v))

\* embeddings once _post_json has returned `data` (openai_client.py:186-191)
Embeddings(data) ==
    IF ~GetKey(data, "data").ok \/ ~IsIterable(GetKey(data, "data").v)
    THEN MethodRaised("RuntimeError", "Invalid embeddings response format.")
    ELSE IF \E i \in 1 .. Len(IterItems(GetKey(data, "data").v)) :
                ~ItemEmbedding(IterItems(GetKey(data, "data").v)[i]).ok
         THEN MethodRaised("RuntimeError", "Invalid embeddings response format.")
         ELSE MethodReturned([i \in 1 .. Len(IterItems(GetKey(data, "data").v)) |->
                                 ItemEmbedding(IterItems(GetKey(data, "data").v)[i]).v])

\* rerank once _post_json has returned `data` (openai_client.py:208-212,
\* 222-226): None from _extract_rerank_scores becomes RuntimeError, what
\* float() or data.get raise is not caught
Rerank(data, documents) ==
    IF RerankScores(data, documents).status = "returned"
    THEN MethodReturned(RerankScores(data, documents).scores)
    ELSE IF ExtractRerankScores(data, documents).status = "none"
         THEN MethodRaised("RuntimeError", "Invalid rerank response format.")
         ELSE MethodRaised(RerankScores(data, documents).error, "")

\* the number of times hybrid_retrieve calls embed_query_fn: none for a node
\* without chunks (the early return), one otherwise
HybridEmbedCalls(node) == IF node.chunks = << >> THEN 0 ELSE 1

(***************************************************************************)
(* chunker.py                                                              *)
(***************************************************************************)
\* the defaults of chunk_content
DefaultChunkSize == 200
DefaultOverlap == 50
DefaultMinChars == 20

\* content.split("\n\n"): the pieces between the blank lines, found from the
\* left
RECURSIVE SplitParagraphs(_)
SplitParagraphs(content) ==
    IF \E i \in 1 .. (Len(content) - 1) : content[i] = "\n" /\ content[i + 1] = "\n"
    THEN LET at == CHOOSE i \in 1 .. (Len(content) - 1) :
                      /\ content[i] = "\n" /\ content[i + 1] = "\n"
                      /\ \A j \in 1 .. (i - 1) : ~(content[j] = "\n" /\ content[j + 1] = "\n")
         IN  <<SubSeq(content, 1, at - 1)>>
                 \o SplitParagraphs(SubSeq(content, at + 2, Len(content)))
    ELSE <<content>>

\* paragraph[start:end].strip(), start counted from 0
Piece(paragraph, start, chunk_size) ==
    StrStrip(SubSeq(paragraph, start + 1, Min(start + chunk_size, Len(paragraph))))

\* the while loop over one long paragraph, from `start` on
RECURSIVE ChunkWindows(_, _, _, _, _, _)
ChunkWindows(paragraph, start, chunk_size, step, min_chars, chunks) ==
    IF start >= Len(paragraph) THEN chunks
    ELSE ChunkWindows(paragraph, start + step, chunk_size, step, min_chars,
                      IF Len(Piece(paragraph, start, chunk_size)) >= min_chars
                      THEN Append(chunks, Piece(paragraph, start, chunk_size))
                      ELSE chunks)

\* the body of the loop over the paragraphs, for one stripped paragraph
ChunkParagraph(paragraph, chunk_size, step, min_chars, chunks) ==
    IF Len(paragraph) < min_chars THEN chunks
    ELSE IF Len(paragraph) <= chunk_size THEN Append(chunks, paragraph)
    ELSE ChunkWindows(paragraph, 0, chunk_size, step, min_chars, chunks)

RECURSIVE ChunkParagraphs(_, _, _, _, _, _)
ChunkParagraphs(paragraphs, i, chunk_size, step, min_chars, chunks) ==
    IF i > Len(paragraphs) THEN chunks
    ELSE ChunkParagraphs(paragraphs, i + 1, chunk_size, step, min_chars,
                         ChunkParagraph(StrStrip(paragraphs[i]), chunk_size, step, min_chars,
                                        chunks))

\* step = chunk_size - overlap, set to 1 when it is not positive
WindowStepFlooredAtZero(chunk_size, overlap) == Max(chunk_size - overlap, 0)
WindowStep(chunk_size, overlap) ==
    IF chunk_size - overlap <= 0 THEN 1 ELSE chunk_size - overlap

\* chunk_content
ChunkContent(content, chunk_size, overlap, min_chars) ==
    IF chunk_size <= 0 THEN << >>
    ELSE ChunkParagraphs(SplitParagraphs(content), 1, chunk_size,
                         WindowStep(chunk_size, overlap), min_chars, << >>)

(***************************************************************************)
(* index_store.py.  A tree node of the indexer carries its content and,    *)
(* when it has one, a heading_path ({} stands for a missing key); the      *)
(* document carries a doc_id or none.  A BM25 index is given by the corpus *)
(* it was built over.                                                      *)
(***************************************************************************)
IndexTreeNode(node_id, is_leaf, heading, heading_path, content, children) ==
    [node_id |-> node_id, is_leaf |-> is_leaf, heading |-> heading,
     heading_path |-> heading_path, content |-> content, children |-> children]

\* RagIndex with all its fields
FullRagIndex(doc_id, tree_data, nodes, all_chunks) ==
    [doc_id |-> doc_id, tree_data |-> tree_data, nodes |-> nodes, all_chunks |-> all_chunks]

NoNodes == [node_id \in {} |-> IndexedNode(<< >>, << >>, << >>, {})]

\* f"{idx:02d}"
TwoDigits(idx) == <<DigitChars[(idx \div 10) + 1], DigitChars[(idx % 10) + 1]>>

\* f"{node_id}_chunk_{idx:02d}"
ChunkId(node_id, idx) == node_id \o <<"_", "c", "h", "u", "n", "k", "_">> \o TwoDigits(idx)

\* embedder.embed_texts(chunk_texts): the mock embedder hashes every text;
\* the backend embedder returns what client.embeddings returns, a vector per
\* text ("full"), one vector fewer ("short"), or a vector per text with
\* the vectors after the first one number longer ("ragged")
EmbedTexts(embedder, embed, texts) ==
    IF embedder = "mock" THEN [i \in 1 .. Len(texts) |-> HashEmbedding(texts[i])]
    ELSE IF embed = "short" THEN [i \in 1 .. (Len(texts) - 1) |-> <<3, 4>>]
    ELSE IF embed = "ragged" THEN [i \in 1 .. Len(texts) |-> IF i = 1 THEN <<3, 4>> ELSE <<3, 4, 0>>]
    ELSE [i \in 1 .. Len(texts) |-> <<3, 4>>]

\* str(leaf.get("heading_path", leaf.get("heading", node_id)))
LeafHeadingPath(leaf) ==
    IF leaf.heading_path # {} THEN CHOOSE path \in leaf.heading_path : TRUE ELSE leaf.heading

\* the chunks of one leaf: zip(chunk_texts, vectors)
LeafChunks(node_id, heading_path, chunk_texts, vectors) ==
    [i \in 1 .. Min(Len(chunk_texts), Len(vectors)) |->
        Chunk(ChunkId(node_id, i - 1), chunk_texts[i], node_id, heading_path, vectors[i])]

\* build_bm25_index over [tokenize(chunk.text) for chunk in chunks], or over
\* one empty document when the leaf has no chunks
BuildBm25Index(chunks) ==
    {[corpus |-> IF chunks # << >> THEN [i \in 1 .. Len(chunks) |-> Tokenize(chunks[i].text)]
                 ELSE << << >> >>]}

\* the IndexedNode of one leaf
BuildLeaf(leaf, embedder, embed) ==
    IndexedNode(StrStrip(leaf.node_id), LeafHeadingPath(leaf),
                LeafChunks(StrStrip(leaf.node_id), LeafHeadingPath(leaf),
                           ChunkContent(leaf.content, DefaultChunkSize, DefaultOverlap,
                                        DefaultMinChars),
                           EmbedTexts(embedder, embed,
                                      ChunkContent(leaf.content, DefaultChunkSize,
                                                   DefaultOverlap, DefaultMinChars))),
                {})

\* nodes[node_id] = IndexedNode(...) at the end of the loop body
PutNode(nodes, node) ==
    (node.node_id :> [node EXCEPT !.bm25_index = BuildBm25Index(node.chunks)]) @@ nodes

\* the loop over the leaves, from leaf i on
RECURSIVE BuildLoop(_, _, _, _, _, _)
BuildLoop(leaves, i, embedder, embed, nodes, all_chunks) ==
    IF i > Len(leaves) THEN [nodes |-> nodes, all_chunks |-> all_chunks]
    ELSE BuildLoop(leaves, i + 1, embedder, embed,
                   PutNode(nodes, BuildLeaf(leaves[i], embedder, embed)),
                   all_chunks \o BuildLeaf(leaves[i], embedder, embed).chunks)

\* str(tree_data.get("doc_id", "unknown_doc"))
DocIdOf(tree_data) ==
    IF tree_data.doc_id # {} THEN CHOOSE doc_id \in tree_data.doc_id : TRUE
    ELSE <<"u", "n", "k", "n", "o", "w", "n", "_", "d", "o", "c">>

\* the embedder is called for a leaf with chunk texts
EmbedderIsCalled(tree_data) ==
    \E i \in 1 .. Len(LeafNodes(tree_data)) :
        ChunkContent(LeafNodes(tree_data)[i].content, DefaultChunkSize, DefaultOverlap,
                     DefaultMinChars) # << >>

IndexBuilt(index) == [status |-> "returned", index |-> index, error |-> "none"]
IndexRaised(error) ==
    [status |-> "raised", index |-> FullRagIndex(<< >>, [doc_id |-> {}], NoNodes, << >>),
     error |-> error]

BuiltFrom(tree_data, built) ==
    IndexBuilt(FullRagIndex(DocIdOf(tree_data), tree_data, built.nodes, built.all_chunks))

\* build_index_from_tree; embed says what client.embeddings does when the
\* backend embedder calls it: "full", "short", "ragged" or "raise"
BuildIndexFromTree(tree_data, mock, client, embed) ==
    IF BuildEmbedder(mock, client) = "ValueError" THEN IndexRaised("ValueError")
    ELSE IF BuildEmbedder(mock, client) = "openai" /\ embed = "raise"
            /\ EmbedderIsCalled(tree_data)
         THEN IndexRaised("RuntimeError")
         ELSE BuiltFrom(tree_data,
                        BuildLoop(LeafNodes(tree_data), 1, BuildEmbedder(mock, client), embed,
                                  NoNodes, << >>))

\* the metadata object save_index writes to metadata.json
SavedMetadata(index) ==
    [doc_id |-> index.doc_id,
     node_count |-> Cardinality(DOMAIN index.nodes),
     chunk_count |-> Len(index.all_chunks),
     node_chunk_ids |->
         [node_id \in DOMAIN index.nodes |->
             [i \in 1 .. Len(index.nodes[node_id].chunks) |->
                 index.nodes[node_id].chunks[i].chunk_id]],
     node_heading_paths |->
         [node_id \in DOMAIN index.nodes |-> index.nodes[node_id].heading_path],
     tree_data |-> index.tree_data]

\* the rows save_index writes to chunks.jsonl, one per chunk of all_chunks
SavedRows(index) ==
    [i \in 1 .. Len(index.all_chunks) |->
        [chunk_id |-> index.all_chunks[i].chunk_id,
         text |-> index.all_chunks[i].text,
         source_node_id |-> index.all_chunks[i].source_node_id,
         heading_path |-> index.all_chunks[i].heading_path]]

\* save_index into a new directory: the files it has written, a field per
\* file, and how it ended.  metadata.json and chunks.jsonl are written
\* first; then np.array makes the matrix of the embeddings, one row per
\* chunk, and raises ValueError when the rows differ in length: the two
\* files stay, embeddings.npy and bm25.pkl are not written.  Otherwise
\* embeddings.npy holds the matrix and bm25.pkl the BM25 index of every node
SaveIndex(index) ==
    IF \E i, j \in 1 .. Len(index.all_chunks) :
           Len(index.all_chunks[i].embedding) # Len(index.all_chunks[j].embedding)
    THEN [status |-> "raised", error |-> "ValueError",
          metadata |-> SavedMetadata(index), rows |-> SavedRows(index)]
    ELSE [status |-> "returned", error |-> "none",
          metadata |-> SavedMetadata(index), rows |-> SavedRows(index),
          matrix |-> [i \in 1 .. Len(index.all_chunks) |-> index.all_chunks[i].embedding],
          bm25_map |-> [node_id \in DOMAIN index.nodes |-> index.nodes[node_id].bm25_index]]

\* the chunks load_index reads: row i of chunks.jsonl with row i of the
\* matrix, or [] when the matrix has no such row
LoadChunks(rows, matrix) ==
    [i \in 1 .. Len(rows) |->
        Chunk(rows[i].chunk_id, rows[i].text, rows[i].source_node_id, rows[i].heading_path,
              IF i <= Len(matrix) THEN matrix[i] ELSE << >>)]

\* chunk_by_id[cid]: the dict comprehension keeps the last chunk of an id
ChunkById(chunks, cid) ==
    chunks[CHOOSE i \in 1 .. Len(chunks) :
              /\ chunks[i].chunk_id = cid
              /\ \A j \in (i + 1) .. Len(chunks) : chunks[j].chunk_id # cid]

\* [chunk_by_id[cid] for cid in chunk_ids if cid in chunk_by_id]
NodeChunks(chunks, chunk_ids) ==
    LET Known(cid) == \E i \in 1 .. Len(chunks) : chunks[i].chunk_id = cid
        known_ids == SelectSeq(chunk_ids, Known)
    IN  [i \in 1 .. Len(known_ids) |-> ChunkById(chunks, known_ids[i])]

\* load_index
LoadIndex(files) ==
    FullRagIndex(files.metadata.doc_id, files.metadata.tree_data,
                 [node_id \in DOMAIN files.metadata.node_chunk_ids |->
                     IndexedNode(node_id,
                                 DictGet(files.metadata.node_heading_paths, node_id, node_id),
                                 NodeChunks(LoadChunks(files.rows, files.matrix),
                                            files.metadata.node_chunk_ids[node_id]),
                                 DictGet(files.bm25_map, node_id, {}))],
                 LoadChunks(files.rows, files.matrix))

(***************************************************************************)
(* Each specification runs one component; the others stay idle.            *)
(***************************************************************************)
NoError == [type |-> "none", status |-> 0]

NoArgs == [top_k |-> 0, config |-> RagConfig(DefaultTopK, DefaultDenseWeight, DefaultBm25Weight, FALSE, 0),
           client |-> FALSE, mock |-> TRUE, pool |-> << >>]

RerankIdle ==
    /\ rr_pc = "idle"
    /\ rr_pool = << >>
    /\ rr_args = NoArgs
    /\ rr_requests = << >>
    /\ rr_reply = NoReply
    /\ rr_result = << >>

NoLocateArgs == [query |-> << >>, tree_data |-> [tree |-> TreeNode(RootId, {}, << >>, << >>, << >>)],
                 config |-> RagConfig(DefaultTopK, DefaultDenseWeight, DefaultBm25Weight, FALSE, 0),
                 client |-> FALSE, mock |-> TRUE, top_k |-> 0]

NoLocateOut == [status |-> "none", results |-> << >>, thinking |-> Literal(""), error |-> "none"]

LocateIdle ==
    /\ lc_pc = "idle"
    /\ lc_args = NoLocateArgs
    /\ lc_reply = NoChat
    /\ lc_out = NoLocateOut

NoPipeArgs == [query |-> << >>,
               index |-> RagIndex([tree |-> TreeNode(RootId, {}, << >>, << >>, << >>)],
                                  [id \in {} |-> 0]),
               config |-> RagConfig(DefaultTopK, DefaultDenseWeight, DefaultBm25Weight, FALSE, 0),
               mock |-> TRUE, client |-> FALSE]

NoPipeResult == PipelineResult(<< >>, Literal(""), << >>, << >>, Literal(""))

\* a run that has not reached a stage holds the stage's empty value
PipeFresh ==
    /\ pp_located = << >>
    /\ pp_thinking = Literal("")
    /\ pp_next = 1
    /\ pp_pool = << >>
    /\ pp_evidence = << >>
    /\ pp_calls = << >>
    /\ pp_error = "none"
    /\ pp_result = NoPipeResult

PipelineIdle ==
    /\ pp_pc = "idle"
    /\ pp_args = NoPipeArgs
    /\ PipeFresh

NoCall == [fn |-> "none"]

CallIdle ==
    /\ call_pc = "idle"
    /\ call_args = NoCall
    /\ call_out = NoCall

ClientIdle ==
    /\ max_retries = 1
    /\ retry_backoff_seconds = 0
    /\ pj_pc = "idle"
    /\ pj_attempts = << >>
    /\ pj_waits = << >>
    /\ pj_error = NoError

\* the components other than the function call stay idle
OthersIdle ==
    /\ ClientIdle
    /\ RerankIdle
    /\ LocateIdle
    /\ PipelineIdle

(***************************************************************************)
(* OpenAICompatibleClient._post_json                                       *)
(***************************************************************************)
\* HTTP statuses the loop retries (openai_client.py:52)
RetryStatuses == {429, 500, 502, 503, 504}
\* HTTP error statuses the backend of the model can answer with
HttpErrorStatuses == RetryStatuses \cup {400, 401, 404}

\* What one urlopen + read + decode + json.loads can do.
\*   ok          : a body that json.loads accepts
\*   http        : urlerror.HTTPError with a status code
\*   network     : URLError, TimeoutError, socket.timeout, IncompleteRead,
\*                 ConnectionResetError, OSError
\*   badjson     : a decoded body json.loads rejects
\*   undecodable : a body that is not UTF-8 (UnicodeDecodeError from .decode)
Outcome(kind, status) == [kind |-> kind, status |-> status]

\* a retry set widened to every 4xx/5xx status
RetryableStatusAnyError(code) == code >= 400
RetryableStatus(code) == code \in RetryStatuses

\* `attempt < self.max_retries`, the guard of every retry branch
MayRetryOffByOne(attempt) == attempt <= max_retries
MayRetry(attempt) == attempt < max_retries

\* wait_seconds = self.retry_backoff_seconds * (2 ** (attempt - 1))
WaitSeconds(attempt) == retry_backoff_seconds * Pow2(attempt - 1)

\* The constructor: max(1, max_retries), max(0.0, retry_backoff_seconds).
ClientInit(mr, bo) ==
    /\ max_retries = Max(1, mr)
    /\ retry_backoff_seconds = Max(0, bo)

\* The loop `for attempt in range(1, self.max_retries + 1)` is at its next
\* iteration: the call has neither returned nor raised, and attempts remain.
LoopRuns == pj_pc = "running" /\ Len(pj_attempts) < max_retries

ThisAttempt == Len(pj_attempts) + 1

\* `continue` after a retryable failure: compute the wait, sleep, loop on.
RetryAfter(o) ==
    /\ pj_attempts' = Append(pj_attempts, o)
    /\ pj_waits' = Append(pj_waits, WaitSeconds(ThisAttempt))
    \* the loop ends after iteration max_retries; lines 103-104 then raise
    /\ IF ThisAttempt < max_retries
       THEN pj_pc' = "running" /\ pj_error' = pj_error
       ELSE pj_pc' = "raised" /\ pj_error' = [type |-> "RuntimeError", status |-> 0]

RaiseFrom(o, type, status) ==
    /\ pj_attempts' = Append(pj_attempts, o)
    /\ pj_waits' = pj_waits
    /\ pj_pc' = "raised"
    /\ pj_error' = [type |-> type, status |-> status]

\* try: return json.loads(body)   (openai_client.py:84-85)
AttemptReturnsJson ==
    /\ LoopRuns
    /\ pj_attempts' = Append(pj_attempts, Outcome("ok", 200))
    /\ pj_pc' = "returned"
    /\ UNCHANGED <<max_retries, retry_backoff_seconds, pj_waits, pj_error>>
    /\ UNCHANGED notClientVars

\* except urlerror.HTTPError   (openai_client.py:49-66)
AttemptHttpError ==
    /\ LoopRuns
    /\ \E code \in HttpErrorStatuses :
         IF RetryableStatus(code) /\ MayRetry(ThisAttempt)
         THEN RetryAfter(Outcome("http", code))
         ELSE RaiseFrom(Outcome("http", code), "RuntimeError", code)
    /\ UNCHANGED <<max_retries, retry_backoff_seconds>>
    /\ UNCHANGED notClientVars

\* except (URLError, TimeoutError, ...)   (openai_client.py:67-82)
AttemptNetworkError ==
    /\ LoopRuns
    /\ IF MayRetry(ThisAttempt)
       THEN RetryAfter(Outcome("network", 0))
       ELSE RaiseFrom(Outcome("network", 0), "RuntimeError", 0)
    /\ UNCHANGED <<max_retries, retry_backoff_seconds>>
    /\ UNCHANGED notClientVars

\* except json.JSONDecodeError   (openai_client.py:86-101)
AttemptInvalidJson ==
    /\ LoopRuns
    /\ IF MayRetry(ThisAttempt)
       THEN RetryAfter(Outcome("badjson", 200))
       ELSE RaiseFrom(Outcome("badjson", 200), "RuntimeError", 0)
    /\ UNCHANGED <<max_retries, retry_backoff_seconds>>
    /\ UNCHANGED notClientVars

\* response.read().decode("utf-8") raises UnicodeDecodeError, which neither
\* except clause catches   (openai_client.py:47-48)
AttemptUndecodable ==
    /\ LoopRuns
    /\ RaiseFrom(Outcome("undecodable", 200), "UnicodeDecodeError", 0)
    /\ UNCHANGED <<max_retries, retry_backoff_seconds>>
    /\ UNCHANGED notClientVars

PostJsonStep ==
    \/ AttemptReturnsJson
    \/ AttemptHttpError
    \/ AttemptNetworkError
    \/ AttemptInvalidJson
    \/ AttemptUndecodable

InitClient ==
    /\ \E mr \in (-1) .. MaxRetriesArg, bo \in (-1) .. MaxBackoffArg : ClientInit(mr, bo)
    /\ pj_pc = "running"
    /\ pj_attempts = << >>
    /\ pj_waits = << >>
    /\ pj_error = NoError
    /\ RerankIdle
    /\ LocateIdle
    /\ PipelineIdle
    /\ CallIdle

NextClient == PostJsonStep

SpecClient == InitClient /\ [][NextClient]_vars

(***************************************************************************)
(* rerank_chunks as a state machine: the pool is given, one step is one    *)
(* whole call of rerank_chunks with its arguments and with what the        *)
(* backend answers to the one client.rerank call it may make.              *)
(***************************************************************************)
\* Node ids are only compared for equality, so pools are enumerated up to a
\* renaming of the nodes: the first candidate is of n1, and a node occurs
\* only after the nodes before it in NodeOrder have occurred.
NodeOrder == <<"n1", "n2", "n3">>

NodeLabellings(n) ==
    {f \in [1 .. n -> 1 .. Len(NodeOrder)] :
        \A i \in 1 .. n : \A m \in 1 .. (f[i] - 1) : \E j \in 1 .. (i - 1) : f[j] = m}

\* chunk ids in pool order: descending, so that pool order never agrees with
\* the chunk_id tie-break
DescendingIds(n) == {[i \in 1 .. n |-> n + 1 - i]}

\* Pools of n candidates as the callers and the tests build them: distinct
\* objects, distinct chunk ids, score and fused_score equal.
PoolsOfLen(n, idOrders) ==
    {[i \in 1 .. n |->
        RetrievedChunk(i, Chunk(ids[i], ids[i], NodeOrder[nodes[i]], NodeOrder[nodes[i]], << >>),
                       scores[i],
                       [fused_score |-> scores[i]])] :
        ids \in idOrders, nodes \in NodeLabellings(n),
        scores \in [1 .. n -> 0 .. MaxScore]}

\* the top_k argument: 0 (None, or 0: config.top_k is used) up to one more
\* than the pool holds
TopKArgs(pool) == 0 .. (Len(pool) + 1)

\* rerank_min_unique_nodes matters only with rerank_diversify set
Configs ==
    {RagConfig(DefaultTopK, DefaultDenseWeight, DefaultBm25Weight, FALSE, 0)}
        \cup {RagConfig(DefaultTopK, DefaultDenseWeight, DefaultBm25Weight, TRUE, m) : m \in 0 .. Len(NodeOrder)}

\* what a backend that answers with one score per document can answer: the
\* same score for all, scores rising along the documents, scores falling
BackendScoreVectors(n) ==
    {[i \in 1 .. n |-> MaxScore], [i \in 1 .. n |-> i - 1], [i \in 1 .. n |-> n - i]}

\* the whole of rerank_chunks (reranker.py:137-160)
RerankChunksCall(top_k, config, client, mock, reply) ==
    LET resolved_top_k == ResolvedTopK(top_k, config)
        scored == ScoreCandidates(rr_pool, client, mock, reply)
    IN  /\ rr_pc = "ready"
        /\ rr_pc' = "done"
        /\ rr_args' = [top_k |-> top_k, config |-> config, client |-> client,
                       mock |-> mock, pool |-> rr_pool]
        /\ rr_reply' = reply
        /\ rr_requests' =
             IF rr_pool # << >> /\ UsesBackend(client, mock)
             THEN <<RerankCall("rerank-model", "q", RerankCallDocuments(rr_pool),
                               RerankCallTopN(rr_pool, resolved_top_k))>>
             ELSE << >>
        /\ rr_pool' = IF rr_pool = << >> THEN rr_pool ELSE scored
        /\ rr_result' = IF rr_pool = << >> THEN << >>
                        ELSE SelectWithNodeDiversity(scored, config, resolved_top_k)
        /\ UNCHANGED notRerankVars

\* `if not retrieved_chunks: return []`
RerankEmptyPool ==
    /\ rr_pool = << >>
    /\ \E top_k \in TopKArgs(rr_pool), config \in Configs, client \in BOOLEAN, mock \in BOOLEAN :
         RerankChunksCall(top_k, config, client, mock, NoReply)

\* a call that uses no backend: scores stay as they are
RerankLocal(client, mock) ==
    /\ rr_pool # << >>
    /\ ~UsesBackend(client, mock)
    /\ \E top_k \in TopKArgs(rr_pool), config \in Configs :
         RerankChunksCall(top_k, config, client, mock, NoReply)

\* mock = True, client = None
RerankMock == RerankLocal(FALSE, TRUE)

\* mock = True with a client configured
RerankMockWithClient == RerankLocal(TRUE, TRUE)

\* mock = False, client = None
RerankNoClient == RerankLocal(FALSE, FALSE)

\* client.rerank raises
RerankBackendRaises ==
    /\ rr_pool # << >>
    /\ \E top_k \in TopKArgs(rr_pool), config \in Configs :
         RerankChunksCall(top_k, config, TRUE, FALSE, RaisedReply)

\* client.rerank returns one score too few or one too many
RerankBackendWrongLength ==
    /\ rr_pool # << >>
    /\ \E top_k \in TopKArgs(rr_pool), config \in Configs,
          n \in {Len(rr_pool) - 1, Len(rr_pool) + 1} :
         RerankChunksCall(top_k, config, TRUE, FALSE,
                          ScoresReply([i \in 1 .. n |-> MaxScore + 1]))

\* client.rerank returns one score per document
RerankBackendScores ==
    /\ rr_pool # << >>
    /\ \E top_k \in TopKArgs(rr_pool), config \in Configs,
          scores \in BackendScoreVectors(Len(rr_pool)) :
         RerankChunksCall(top_k, config, TRUE, FALSE, ScoresReply(scores))

RerankReady ==
    /\ rr_pc = "ready"
    /\ rr_args = NoArgs
    /\ rr_requests = << >>
    /\ rr_reply = NoReply
    /\ rr_result = << >>

\* SpecRerank: every mode of rerank_chunks, pools of up to MaxPool - 1
InitRerank ==
    /\ ClientIdle
    /\ LocateIdle
    /\ PipelineIdle
    /\ CallIdle
    /\ RerankReady
    /\ rr_pool \in UNION {PoolsOfLen(n, DescendingIds(n)) : n \in 0 .. (MaxPool - 1)}

NextRerank ==
    \/ RerankEmptyPool
    \/ RerankMock
    \/ RerankMockWithClient
    \/ RerankNoClient
    \/ RerankBackendRaises
    \/ RerankBackendWrongLength
    \/ RerankBackendScores

SpecRerank == InitRerank /\ [][NextRerank]_vars

\* SpecSelect: the selection on its own (mock mode), pools of up to MaxPool
InitSelect ==
    /\ ClientIdle
    /\ LocateIdle
    /\ PipelineIdle
    /\ CallIdle
    /\ RerankReady
    /\ rr_pool \in UNION {PoolsOfLen(n, DescendingIds(n)) : n \in 1 .. MaxPool}

NextSelect == RerankMock

SpecSelect == InitSelect /\ [][NextSelect]_vars

\* SpecArrival: the candidates reach the pool in any order; the scores stay
\* the fused scores (mock mode, or the backend call fails)
InitArrival ==
    /\ ClientIdle
    /\ LocateIdle
    /\ PipelineIdle
    /\ CallIdle
    /\ RerankReady
    /\ rr_pool \in UNION {PoolsOfLen(n, Permutations(1 .. n)) : n \in 1 .. (MaxPool - 1)}

NextArrival ==
    \/ RerankMock
    \/ RerankBackendRaises

SpecArrival == InitArrival /\ [][NextArrival]_vars

(***************************************************************************)
(* locate_nodes as a state machine: query and tree are given, one step is  *)
(* one whole call with its other arguments and with what the backend does  *)
(* when the call reaches client.chat_completion.                           *)
(***************************************************************************)
Str_n1 == <<"n", "1">>
Str_n2 == <<"n", "2">>
Str_n3 == <<"n", "3">>
Str_s1 == <<"s", "1">>
Str_s2 == <<"s", "2">>
Str_s3 == <<"s", "3">>
Str_zz == <<"z", "z">>

\* ids of the leaves and of the inner sections, by position under the root
LeafIds == <<Str_n1, Str_n2, Str_n3>>
SectionIds == <<Str_s1, Str_s2, Str_s3>>

\* heading and summary of the leaf at each position
LeafHeadings ==
    <<<<"A", "n", "t">>, <<"a", "n", "t", "s">>, <<"T", "e", "a">>>>
LeafSummaries ==
    <<<<"t", "h", "e", " ", "h", "i", "l", "l">>, << >>, <<"o", "f", " ", "o", "a", "t">>>>

\* a child of the root: a leaf with is_leaf set, a leaf without the is_leaf
\* key, or an inner section with one leaf below it
ChildKinds == {"leaf", "bare", "section"}

ChildNode(kind, i) ==
    CASE kind = "leaf" ->
             TreeNode(LeafIds[i], {TRUE}, LeafHeadings[i], LeafSummaries[i], << >>)
      [] kind = "bare" ->
             TreeNode(LeafIds[i], {}, LeafHeadings[i], LeafSummaries[i], << >>)
      [] kind = "section" ->
             TreeNode(SectionIds[i], {FALSE}, <<"S">>, << >>,
                      <<TreeNode(LeafIds[i], {TRUE}, LeafHeadings[i], LeafSummaries[i], << >>)>>)

TreeOf(kinds) ==
    [tree |-> TreeNode(RootId, {FALSE}, << >>, << >>,
                       [i \in 1 .. Len(kinds) |-> ChildNode(kinds[i], i)])]

\* the trees locate_nodes is called with: no leaf; one leaf; a section with a
\* leaf, then a leaf without is_leaf; two leaves
LocateTrees ==
    {TreeOf(<< >>), TreeOf(<<"leaf">>), TreeOf(<<"section", "bare">>),
     TreeOf(<<"leaf", "leaf">>)}

NodeIdsOf(tree_data) ==
    LET nodes == IterNodes(tree_data.tree) IN {nodes[i].node_id : i \in 1 .. Len(nodes)}

LeafIdsOf(tree_data) ==
    LET leaves == LeafNodes(tree_data) IN {leaves[i].node_id : i \in 1 .. Len(leaves)}

\* the top_k argument: 0 (None, or 0: config.top_k is used), 1, and -1, a
\* top_k below 1
LocateTopKArgs == {-1, 0, 1}

\* the queries of the calls of locate_nodes alone: those of LocateQueries
\* and a query of two blanks
LocateCallQueries == LocateQueries \cup {<<" ", " ">>}

ReplyEntry(node_id, sub_query) ==
    JObj(("node_id" :> node_id) @@ ("sub_query" :> sub_query))
ReplyEntryNoSubQuery(node_id) == JObj("node_id" :> node_id)

SubQueryText == <<"h", "i", "l", "l">>

FirstLeafId(tree_data) == LeafNodes(tree_data)[1].node_id
LastLeafId(tree_data) == Last(LeafNodes(tree_data)).node_id

\* the entries a backend can put into "results": the first leaf without a
\* sub_query and with a blank one; the last leaf, id and sub_query with blanks
\* around them; every node that is no leaf, and an unknown id; an entry
\* without node_id; one with a null node_id; an entry that is no object
ReplyEntries(tree_data) ==
    (IF LeafNodes(tree_data) = << >> THEN {}
     ELSE {ReplyEntryNoSubQuery(JStr(FirstLeafId(tree_data))),
           ReplyEntry(JStr(FirstLeafId(tree_data)), JStr(<<" ", " ">>)),
           ReplyEntry(JStr(<<" ">> \o LastLeafId(tree_data) \o <<"\n">>),
                      JStr(<<" ">> \o SubQueryText \o <<" ">>))})
      \cup {ReplyEntryNoSubQuery(JStr(id)) :
               id \in (NodeIdsOf(tree_data) \ LeafIdsOf(tree_data)) \cup {Str_zz}}
      \cup {JObj("sub_query" :> JStr(SubQueryText)),
            ReplyEntryNoSubQuery(JNull),
            JStr(Str_n1)}

ReplyLists(tree_data) ==
    {JList(items) : items \in UNION {[1 .. n -> ReplyEntries(tree_data)] : n \in 0 .. MaxReplyItems}}

\* the values a reply can carry under "thinking": none, a text, a blank text
ReplyObjects(results) ==
    {JObj("results" :> results),
     JObj(("results" :> results) @@ ("thinking" :> JStr(<<" ", "o", "k", " ">>))),
     JObj(("results" :> results) @@ ("thinking" :> JStr(<<" ">>)))}

\* values of "results" that are no list
NonListResults == {JNull, JNum(3), JBool(TRUE), JStr(Str_n1), JObj(EmptyDict),
                   JObj("node_id" :> JStr(Str_n1))}

\* JSON documents that are no object
NonObjectValues == {JNull, JNum(3), JBool(FALSE), JStr(Str_n1), JList(<< >>),
                    JList(<<ReplyEntryNoSubQuery(JStr(Str_n1))>>)}

\* the whole of locate_nodes (node_locator.py:127-182)
LocateNodesCall(config, client, mock, top_k, reply) ==
    /\ lc_pc = "ready"
    /\ lc_pc' = "done"
    /\ lc_args' = [lc_args EXCEPT !.config = config, !.client = client,
                                  !.mock = mock, !.top_k = top_k]
    /\ lc_reply' = reply
    /\ lc_out' = LocateNodes(lc_args.query, lc_args.tree_data, config, client, mock,
                             top_k, reply)
    /\ UNCHANGED notLocateVars

LocateConfig == RagConfig(DefaultTopK, DefaultDenseWeight, DefaultBm25Weight, TRUE, 0)

\* mock = True, with or without a client: no backend call
LocateMock ==
    /\ lc_pc = "ready"
    /\ \E client \in BOOLEAN, top_k \in LocateTopKArgs :
           LocateNodesCall(LocateConfig, client, TRUE, top_k, NoChat)

\* mock = False, client = None: no backend call
LocateNoClient ==
    /\ lc_pc = "ready"
    /\ \E top_k \in LocateTopKArgs :
           LocateNodesCall(LocateConfig, FALSE, FALSE, top_k, NoChat)

\* client.chat_completion raises
LocateBackendRaises ==
    /\ lc_pc = "ready"
    /\ \E top_k \in LocateTopKArgs :
           LocateNodesCall(LocateConfig, TRUE, FALSE, top_k, ChatRaised)

\* the reply is no JSON document and holds none
LocateReplyUnparsable ==
    /\ lc_pc = "ready"
    /\ \E top_k \in LocateTopKArgs, shape \in {"prose", "braces"} :
           LocateNodesCall(LocateConfig, TRUE, FALSE, top_k, ChatText(shape, JNull))

\* the reply is a JSON document that is no object
LocateReplyNotObject ==
    /\ lc_pc = "ready"
    /\ \E top_k \in LocateTopKArgs, value \in NonObjectValues :
           LocateNodesCall(LocateConfig, TRUE, FALSE, top_k, ChatText("json", value))

\* the reply is an object without "results", or with one that is no list
LocateReplyNoResultList ==
    /\ lc_pc = "ready"
    /\ \E top_k \in LocateTopKArgs, shape \in {"json", "wrapped"},
          payload \in {JObj(EmptyDict), JObj("thinking" :> JStr(<<"o", "k">>))}
                        \cup UNION {ReplyObjects(results) : results \in NonListResults} :
           LocateNodesCall(LocateConfig, TRUE, FALSE, top_k, ChatText(shape, payload))

\* the reply is an object with a list under "results"
LocateReplyResultList ==
    /\ lc_pc = "ready"
    /\ \E top_k \in LocateTopKArgs, shape \in {"json", "wrapped"},
          results \in ReplyLists(lc_args.tree_data) :
           \E payload \in ReplyObjects(results) :
               LocateNodesCall(LocateConfig, TRUE, FALSE, top_k, ChatText(shape, payload))

LocateReady ==
    /\ lc_pc = "ready"
    /\ lc_reply = NoChat
    /\ lc_out = NoLocateOut

InitLocate ==
    /\ ClientIdle
    /\ RerankIdle
    /\ PipelineIdle
    /\ CallIdle
    /\ LocateReady
    /\ \E query \in LocateCallQueries, tree_data \in LocateTrees :
         lc_args = [NoLocateArgs EXCEPT !.query = query, !.tree_data = tree_data]

NextLocate ==
    \/ LocateMock
    \/ LocateNoClient
    \/ LocateBackendRaises
    \/ LocateReplyUnparsable
    \/ LocateReplyNotObject
    \/ LocateReplyNoResultList
    \/ LocateReplyResultList

SpecLocate == InitLocate /\ [][NextLocate]_vars

(***************************************************************************)
(* run_pipeline as a state machine: query, index, config, mock and client  *)
(* are given; a step is the part of run_pipeline up to and including the   *)
(* next stage, with what the backend does when that stage calls it.        *)
(***************************************************************************)
\* the chunks of the leaf at position p of a tree: chunk number j has a text,
\* an embedding and a BM25 score of its own.  chunk_id stands for
\* f"{node_id}_chunk_{idx:02d}": 100 * p + idx orders like the strings.
ChunkEmbeddings == <<<<1, 0>>, <<3, 4>>, <<0, 1>>>>

ChunkAt(p, j) ==
    Chunk(100 * p + (j - 1), <<"c", DigitChars[p + 1], DigitChars[j + 1]>>, LeafIds[p],
          LeafHeadings[p], ChunkEmbeddings[((p + j) % Len(ChunkEmbeddings)) + 1])

\* build_index_from_tree gives every leaf an IndexedNode; counts[p] is the
\* number of chunks chunk_content cut from the content of leaf p
IndexedLeaf(p, count) ==
    IndexedNode(LeafIds[p], LeafHeadings[p], [j \in 1 .. count |-> ChunkAt(p, j)],
                {[scores |-> [j \in 1 .. Max(1, count) |-> ((p + j) % 2) * ScoreOne]]})

IndexOf(tree_data, counts) ==
    RagIndex(tree_data,
             [id \in LeafIdsOf(tree_data) |->
                 LET p == CHOOSE q \in 1 .. Len(LeafIds) : LeafIds[q] = id
                 IN  IndexedLeaf(p, counts[p])])

PipeTrees == {TreeOf(<<"leaf", "leaf">>), TreeOf(<<"section", "bare">>)}

\* indexes built with a backend embedder.  An index built in mock mode holds
\* hash embeddings, and the cosine of two of them is outside the numbers of
\* the model
Indexes ==
    {IndexOf(tree_data, counts) : tree_data \in PipeTrees, counts \in [1 .. 2 -> 0 .. MaxChunks]}

PipeConfigs ==
    {RagConfig(top_k, DefaultDenseWeight, DefaultBm25Weight, TRUE, 0) : top_k \in 1 .. MaxTopK}

PipeUsesBackend == UsesBackend(pp_args.client, pp_args.mock)

\* the replies to the node-location request the runs of the model see
PipeLocateReplies ==
    LET tree_data == pp_args.index.tree_data
        first == ReplyEntryNoSubQuery(JStr(FirstLeafId(tree_data)))
        last == ReplyEntry(JStr(<<" ">> \o LastLeafId(tree_data) \o <<"\n">>),
                           JStr(<<" ">> \o SubQueryText \o <<" ">>))
    IN  {ChatRaised, ChatText("prose", JNull), ChatText("json", JList(<< >>)),
         ChatText("json", JObj("results" :> JNull)),
         ChatText("json", JObj("results" :> JList(<<first>>))),
         ChatText("json", JObj("results" :> JList(<<last, first>>))),
         ChatText("wrapped", JObj("results" :> JList(<<first, first>>)))}

\* run_pipeline raises: the exception leaves the function
PipeRaise(error) ==
    /\ pp_pc' = "raised"
    /\ pp_error' = error

\* Step 1, after the call: locate_result is bound, or the exception of
\* locate_nodes leaves run_pipeline (pipeline.py:27-34)
PipeLocated(locate_result) ==
    /\ pp_pc = "locate"
    /\ pp_calls' = IF PipeUsesBackend THEN Append(pp_calls, "chat_completion") ELSE pp_calls
    /\ IF locate_result.status = "raised"
       THEN /\ PipeRaise(locate_result.error)
            /\ UNCHANGED <<pp_located, pp_thinking>>
       ELSE /\ pp_pc' = "embedder"
            /\ pp_located' = locate_result.results
            /\ pp_thinking' = locate_result.thinking
            /\ pp_error' = pp_error
    /\ UNCHANGED <<pp_args, pp_next, pp_pool, pp_evidence, pp_result>>
    /\ UNCHANGED notPipelineVars

\* Step 1: locate_nodes (pipeline.py:27-34)
PipeLocateStage(reply) ==
    PipeLocated(LocateNodes(pp_args.query, pp_args.index.tree_data, pp_args.config,
                            pp_args.client, pp_args.mock, pp_args.config.top_k, reply))

\* keyword location: mock mode or no client
PipeLocateLocal ==
    /\ ~PipeUsesBackend
    /\ PipeLocateStage(NoChat)

\* model-assisted location
PipeLocateBackend ==
    /\ PipeUsesBackend
    /\ \E reply \in PipeLocateReplies : PipeLocateStage(reply)

\* build_embedder (pipeline.py:39)
PipeBuildEmbedder ==
    /\ pp_pc = "embedder"
    /\ IF BuildEmbedder(pp_args.mock, pp_args.client) = "ValueError"
       THEN PipeRaise("ValueError")
       ELSE /\ pp_pc' = IF pp_located = << >> THEN "rerank" ELSE "retrieve"
            /\ pp_error' = pp_error
    /\ UNCHANGED <<pp_args, pp_located, pp_thinking, pp_next, pp_pool, pp_evidence,
                   pp_calls, pp_result>>
    /\ UNCHANGED notPipelineVars

PipeNodeInfo == pp_located[pp_next]

\* the located node is in the index and has chunks: hybrid_retrieve embeds
\* the sub_query
PipeNodeNeedsEmbedding ==
    /\ PipeNodeInfo.node_id \in DOMAIN pp_args.index.nodes
    /\ pp_args.index.nodes[PipeNodeInfo.node_id].chunks # << >>

\* the loop moves on to the next located node, or leaves the loop
PipeLoopOn ==
    /\ pp_next' = pp_next + 1
    /\ pp_pc' = IF pp_next < Len(pp_located) THEN "retrieve" ELSE "rerank"

\* all_retrieved.extend(hybrid_retrieve(...)) with the query embedding given
PipeExtendPool(query_embedding) ==
    pp_pool' = pp_pool \o
        HybridRetrieve(pp_args.index.nodes[PipeNodeInfo.node_id], PipeNodeInfo.sub_query,
                       pp_args.config.top_k, pp_args.config.dense_weight,
                       pp_args.config.bm25_weight, query_embedding, Len(pp_pool) + 1)

\* one iteration of the loop (pipeline.py:48-67) that makes no embedding:
\* the node is missing in the index, or it has no chunks
PipeRetrieveNothing ==
    /\ pp_pc = "retrieve"
    /\ ~PipeNodeNeedsEmbedding
    /\ PipeLoopOn
    /\ UNCHANGED <<pp_args, pp_located, pp_thinking, pp_pool, pp_evidence, pp_calls,
                   pp_error, pp_result>>
    /\ UNCHANGED notPipelineVars

\* one iteration with the MockEmbedder
PipeRetrieveMock ==
    /\ pp_pc = "retrieve"
    /\ PipeNodeNeedsEmbedding
    /\ pp_args.mock
    /\ PipeExtendPool(EmbedQuery(<<HashEmbedding(PipeNodeInfo.sub_query)>>))
    /\ PipeLoopOn
    /\ UNCHANGED <<pp_args, pp_located, pp_thinking, pp_evidence, pp_calls, pp_error,
                   pp_result>>
    /\ UNCHANGED notPipelineVars

\* the vector lists client.embeddings can return for one text: none, one
\* vector of the dimension of the index, one of another dimension
EmbeddingVectorLists == {<< >>, <<<<1, 0>>>>, <<<<0, 1>>>>, <<<<1>>>>}

\* one iteration with the OpenAIEmbedder: client.embeddings returns
PipeRetrieveEmbedded ==
    /\ pp_pc = "retrieve"
    /\ PipeNodeNeedsEmbedding
    /\ ~pp_args.mock
    /\ \E vectors \in EmbeddingVectorLists : PipeExtendPool(EmbedQuery(vectors))
    /\ PipeLoopOn
    /\ pp_calls' = Append(pp_calls, "embeddings")
    /\ UNCHANGED <<pp_args, pp_located, pp_thinking, pp_evidence, pp_error, pp_result>>
    /\ UNCHANGED notPipelineVars

\* one iteration with the OpenAIEmbedder: client.embeddings raises, and
\* nothing between embed_texts and run_pipeline catches it
PipeRetrieveEmbedFails ==
    /\ pp_pc = "retrieve"
    /\ PipeNodeNeedsEmbedding
    /\ ~pp_args.mock
    /\ PipeRaise("RuntimeError")
    /\ pp_calls' = Append(pp_calls, "embeddings")
    /\ UNCHANGED <<pp_args, pp_located, pp_thinking, pp_next, pp_pool, pp_evidence,
                   pp_result>>
    /\ UNCHANGED notPipelineVars

\* Step 2, second half: rerank_chunks (pipeline.py:71-78)
PipeReranked(scored) ==
    /\ pp_pc = "rerank"
    /\ pp_pc' = "synthesize"
    /\ pp_pool' = IF pp_pool = << >> THEN pp_pool ELSE scored
    /\ pp_evidence' = IF pp_pool = << >> THEN << >>
                      ELSE SelectWithNodeDiversity(scored, pp_args.config,
                               ResolvedTopK(pp_args.config.top_k, pp_args.config))
    /\ pp_calls' = IF pp_pool # << >> /\ PipeUsesBackend
                   THEN Append(pp_calls, "rerank") ELSE pp_calls
    /\ UNCHANGED <<pp_args, pp_located, pp_thinking, pp_next, pp_error, pp_result>>
    /\ UNCHANGED notPipelineVars

\* rerank_chunks on the pool: _score_candidates, then the selection
PipeRerankStage(reply) ==
    PipeReranked(ScoreCandidates(pp_pool, pp_args.client, pp_args.mock, reply))

\* no rerank request: empty pool, mock mode or no client
PipeRerankLocal ==
    /\ pp_pool = << >> \/ ~PipeUsesBackend
    /\ PipeRerankStage(NoReply)

\* the rerank request fails: client.rerank raises or the scores do not match
PipeRerankBackendFails ==
    /\ pp_pool # << >> /\ PipeUsesBackend
    /\ \E reply \in {RaisedReply, ScoresReply([i \in 1 .. (Len(pp_pool) + 1) |-> MaxScore])} :
         PipeRerankStage(reply)

\* the rerank request succeeds
PipeRerankBackendScores ==
    /\ pp_pool # << >> /\ PipeUsesBackend
    /\ \E scores \in BackendScoreVectors(Len(pp_pool)) : PipeRerankStage(ScoresReply(scores))

\* Step 3: synthesize, and the return of run_pipeline (pipeline.py:82-97)
PipeSynthesized(synthesis) ==
    /\ pp_pc = "synthesize"
    /\ pp_calls' = IF SynthesizeCallsBackend(pp_evidence, pp_args.client, pp_args.mock)
                   THEN Append(pp_calls, "chat_completion") ELSE pp_calls
    /\ IF synthesis.status = "raised"
       THEN /\ PipeRaise("RuntimeError")
            /\ pp_result' = pp_result
       ELSE /\ pp_pc' = "returned"
            /\ pp_error' = pp_error
            /\ pp_result' = PipelineResult(pp_args.query, pp_thinking, pp_located,
                                           pp_evidence, synthesis.answer)
    /\ UNCHANGED <<pp_args, pp_located, pp_thinking, pp_next, pp_pool, pp_evidence>>
    /\ UNCHANGED notPipelineVars

\* synthesize on the evidence, then the return
PipeSynthesizeStage(reply) ==
    PipeSynthesized(Synthesize(pp_evidence, pp_args.client, pp_args.mock, reply))

\* no synthesis request: no evidence, mock mode or no client
PipeSynthesizeLocal ==
    /\ ~SynthesizeCallsBackend(pp_evidence, pp_args.client, pp_args.mock)
    /\ PipeSynthesizeStage(NoChat)

\* client.chat_completion returns the answer text
PipeSynthesizeBackend ==
    /\ SynthesizeCallsBackend(pp_evidence, pp_args.client, pp_args.mock)
    /\ PipeSynthesizeStage(AnswerText(<<"o", "k">>))

\* client.chat_completion raises, and synthesize does not catch it
PipeSynthesizeFails ==
    /\ SynthesizeCallsBackend(pp_evidence, pp_args.client, pp_args.mock)
    /\ PipeSynthesizeStage(ChatRaised)

InitPipeline ==
    /\ ClientIdle
    /\ RerankIdle
    /\ LocateIdle
    /\ CallIdle
    /\ pp_pc = "locate"
    /\ PipeFresh
    /\ \E query \in LocateQueries, index \in Indexes, config \in PipeConfigs,
          mock \in BOOLEAN, client \in BOOLEAN :
         pp_args = [query |-> query, index |-> index, config |-> config,
                    mock |-> mock, client |-> client]

NextPipeline ==
    \/ PipeLocateLocal
    \/ PipeLocateBackend
    \/ PipeBuildEmbedder
    \/ PipeRetrieveNothing
    \/ PipeRetrieveMock
    \/ PipeRetrieveEmbedded
    \/ PipeRetrieveEmbedFails
    \/ PipeRerankLocal
    \/ PipeRerankBackendFails
    \/ PipeRerankBackendScores
    \/ PipeSynthesizeLocal
    \/ PipeSynthesizeBackend
    \/ PipeSynthesizeFails

SpecPipeline == InitPipeline /\ [][NextPipeline]_vars

(***************************************************************************)
(* SpecRerankResponse: one client.rerank call for 0 .. MaxDocs documents,  *)
(* from the JSON document of the backend to the score list.                *)
(***************************************************************************)
ScoreEntry(index, key, score) == JObj(("index" :> index) @@ (key :> score))

\* one entry per document, every index once, in any order, every score
\* above the 0.0 the list starts from
AlignedEntries(n) ==
    {[i \in 1 .. n |-> ScoreEntry(JNum(perm[i] - 1), "relevance_score", JFloat(score[perm[i]]))] :
        perm \in Permutations(1 .. n), score \in [1 .. n -> 1 .. (MaxScore + 1)]}

\* entries a response can also hold: no dict, an index that is missing, a
\* float, a bool or out of range, a second entry for index 0, a score under
\* "score", a score written as a str (with whitespace float() skips, and
\* with 0x1c or 0x1f, which it does not skip), no score, a score that
\* float() refuses
OddEntries(n) ==
    {JNum(1), JNull,
     JObj("relevance_score" :> JFloat(9)),
     ScoreEntry(JFloat(0), "relevance_score", JFloat(9)),
     ScoreEntry(JBool(FALSE), "relevance_score", JFloat(9)),
     ScoreEntry(JNum(n), "relevance_score", JFloat(9)),
     ScoreEntry(JNum(-1), "relevance_score", JFloat(9)),
     ScoreEntry(JNum(0), "relevance_score", JFloat(9)),
     ScoreEntry(JNum(0), "score", JFloat(9)),
     ScoreEntry(JNum(0), "score", JStr(<<" ", "1", "2">>)),
     ScoreEntry(JNum(0), "score", JStr(<<"+", "1", "_", "2", ".", "0", "e", "1">>)),
     ScoreEntry(JNum(0), "score", JStr(<<"", "5", "\r">>)),
     ScoreEntry(JNum(0), "score", JStr(<<"", "5">>)),
     ScoreEntry(JNum(0), "score", JStr(<<"5", "">>)),
     ScoreEntry(JNum(0), "relevance_score", JStr(<<"h", "i">>)),
     ScoreEntry(JNum(0), "relevance_score", JNull),
     JObj("index" :> JNum(0))}

\* a flat list: bare numbers or dicts, up to one entry more than documents
FlatEntries(n) ==
    {[i \in 1 .. m |-> IF shape = "bare" THEN JFloat(score[i])
                       ELSE JObj("relevance_score" :> JFloat(score[i]))] :
        m \in {k \in {n - 1, n, n + 1} : k >= 0}, shape \in {"bare", "dict"},
        score \in [1 .. (n + 1) -> 1 .. (MaxScore + 1)]}

\* documents without any of the three places of the scores
NoScoreDocuments ==
    {JObj(EmptyDict), JObj("results" :> JNull), JObj("output" :> JNum(3)),
     JObj("output" :> JObj(EmptyDict)), JObj("data" :> JObj(EmptyDict)), JList(<< >>)}

RerankResponseCall(data) ==
    /\ call_pc = "ready"
    /\ call_args.fn = "rerank"
    /\ call_pc' = "done"
    /\ call_args' = [call_args EXCEPT !.data = data]
    /\ call_out' = RerankScores(data, call_args.documents)
    /\ UNCHANGED notCallVars

\* {"results": [...]}
RerankGenericResults ==
    /\ call_pc = "ready"
    /\ \E entries \in AlignedEntries(call_args.documents) :
           RerankResponseCall(JObj("results" :> JList(entries)))

\* {"output": {"results": [...]}}
RerankDashscopeResults ==
    /\ call_pc = "ready"
    /\ \E entries \in AlignedEntries(call_args.documents) :
           RerankResponseCall(JObj("output" :> JObj("results" :> JList(entries))))

\* {"data": [...]}
RerankFlatData ==
    /\ call_pc = "ready"
    /\ \E entries \in FlatEntries(call_args.documents) :
           RerankResponseCall(JObj("data" :> JList(entries)))

\* a results list with one entry more, first or last
RerankOddEntry ==
    /\ call_pc = "ready"
    /\ \E entries \in AlignedEntries(call_args.documents),
          odd \in OddEntries(call_args.documents), last \in BOOLEAN :
           RerankResponseCall(JObj("results" :>
               JList(IF last THEN Append(entries, odd) ELSE <<odd>> \o entries)))

\* no score list: client.rerank raises RuntimeError
RerankNoScores ==
    /\ call_pc = "ready"
    /\ \E data \in NoScoreDocuments : RerankResponseCall(data)

InitRerankResponse ==
    /\ OthersIdle
    /\ call_pc = "ready"
    /\ call_out = NoCall
    /\ \E documents \in 0 .. MaxDocs :
         call_args = [fn |-> "rerank", documents |-> documents, data |-> JNull]

NextRerankResponse ==
    \/ RerankGenericResults
    \/ RerankDashscopeResults
    \/ RerankFlatData
    \/ RerankOddEntry
    \/ RerankNoScores

SpecRerankResponse == InitRerankResponse /\ [][NextRerankResponse]_vars

(***************************************************************************)
(* SpecMethod: one call of chat_completion, embeddings or rerank: the      *)
(* _post_json loop of the call, then what the method makes of the document *)
(* the loop returned.                                                      *)
(***************************************************************************)
ClientMethods == {"chat_completion", "embeddings", "rerank"}

ChatBody(content) ==
    JObj("choices" :> JList(<<JObj("message" :> JObj("content" :> content))>>))

\* documents with the fields of the method
GoodBodies(method) ==
    CASE method = "chat_completion" ->
            {ChatBody(JStr(<<" ", "o", "k", "\n">>)), ChatBody(JNull),
             ChatBody(JList(<<JObj("text" :> JStr(<<"o">>)), JStr(<<"x">>),
                              JObj("text" :> JStr(<<"k", " ">>))>>))}
      [] method = "embeddings" ->
            {JObj("data" :> JList(<< >>)),
             JObj("data" :> JList(<<JObj("embedding" :> JList(<<JNum(1), JFloat(0)>>))>>)),
             JObj("data" :> JList(<<JObj("embedding" :> JList(<<JNum(0)>>)),
                                    JObj("embedding" :> JStr(<<"1", "2">>))>>)),
             JObj("data" :> JList(<<JObj("embedding" :> JList(<<JStr(<<"-", "1">>)>>)),
                                    JObj("embedding" :> JObj("12" :> JNum(1)))>>))}
      [] method = "rerank" ->
            {JObj("results" :> JList(entries)) : entries \in AlignedEntries(2)}

\* documents json.loads accepts that lack the fields of the method
BodiesWithoutFields(method) ==
    CASE method = "chat_completion" ->
            {JObj(EmptyDict), JObj("choices" :> JList(<< >>)), JObj("choices" :> JNull),
             JObj("choices" :> JList(<<JObj(EmptyDict)>>)),
             JObj("choices" :> JList(<<JObj("message" :> JObj(EmptyDict))>>)),
             JObj("choices" :> JList(<<JObj("message" :> JStr(<<"h", "i">>))>>)),
             JList(<< >>), JNull}
      [] method = "embeddings" ->
            {JObj(EmptyDict), JObj("data" :> JNull), JObj("data" :> JList(<<JObj(EmptyDict)>>)),
             JObj("data" :> JList(<<JObj("embedding" :> JNull)>>)),
             JObj("data" :> JList(<<JObj("embedding" :> JList(<<JStr(<<"h", "i">>)>>))>>)),
             JList(<< >>), JNull}
      [] method = "rerank" -> NoScoreDocuments \ {JList(<< >>)}

\* the method, given the document _post_json returned
MethodOf(method, data, documents) ==
    CASE method = "chat_completion" -> ChatCompletion(data)
      [] method = "embeddings" -> Embeddings(data)
      [] method = "rerank" -> Rerank(data, documents)

MethodEnds(data, out) ==
    /\ call_pc' = "done"
    /\ call_args' = [call_args EXCEPT !.data = data]
    /\ call_out' = out
    /\ UNCHANGED notCallVars

\* _post_json returned a document that has the fields
MethodReadsFields ==
    /\ call_pc = "ready" /\ call_args.fn \in ClientMethods
    /\ pj_pc = "returned"
    /\ \E data \in GoodBodies(call_args.fn) :
         MethodEnds(data, MethodOf(call_args.fn, data, call_args.documents))

\* _post_json returned a document without the fields
MethodFindsNoFields ==
    /\ call_pc = "ready" /\ call_args.fn \in ClientMethods
    /\ pj_pc = "returned"
    /\ \E data \in BodiesWithoutFields(call_args.fn) :
         MethodEnds(data, MethodOf(call_args.fn, data, call_args.documents))

\* _post_json raised: the method lets the exception through
MethodPropagates ==
    /\ call_pc = "ready" /\ call_args.fn \in ClientMethods
    /\ pj_pc = "raised"
    /\ MethodEnds(JNull, MethodRaised(pj_error.type, "Request failed"))

InitMethod ==
    /\ \E mr \in (-1) .. MaxRetriesArg, bo \in (-1) .. MaxBackoffArg : ClientInit(mr, bo)
    /\ pj_pc = "running"
    /\ pj_attempts = << >>
    /\ pj_waits = << >>
    /\ pj_error = NoError
    /\ RerankIdle
    /\ LocateIdle
    /\ PipelineIdle
    /\ call_pc = "ready"
    /\ call_out = NoCall
    /\ \E method \in ClientMethods :
         call_args = [fn |-> method, documents |-> 2, data |-> JNull]

NextMethod ==
    \/ PostJsonStep
    \/ MethodReadsFields
    \/ MethodFindsNoFields
    \/ MethodPropagates

SpecMethod == InitMethod /\ [][NextMethod]_vars

(***************************************************************************)
(* SpecKeyword: one locate_nodes call that takes the keyword strategy      *)
(* (mock mode, or no client), over trees of up to six leaves.              *)
(***************************************************************************)
KwLeafId(i) == <<"n", DigitChars[i + 1]>>

\* heading and summary of leaf i; against the query "ant tea" the leaves
\* score 1.25, 0.25, 1.25, 2.5, 0 and 1.25
KwHeadings ==
    <<<<"A", "n", "t">>, <<"a", "n", "t", "s">>, <<"T", "e", "a">>,
      <<"t", "e", "a", " ", "a", "n", "t">>, <<"o", "a", "k">>, <<"T", "h", "e">>>>
KwSummaries ==
    <<<<"t", "h", "e", " ", "h", "i", "l", "l">>, << >>, <<"o", "f", " ", "o", "a", "t">>,
      << >>, <<"e", "l", "m">>, <<"A", "N", "T", " ", "h", "i", "l", "l">>>>

KwLeafCount == Len(KwHeadings)

KwLeaf(i) == TreeNode(KwLeafId(i), {TRUE}, KwHeadings[i], KwSummaries[i], << >>)

\* the orders the leaves stand in under the root: up to MaxLeaves of them
\* in every order, and all six forwards and backwards
KwOrders ==
    {order \in UNION {[1 .. n -> 1 .. KwLeafCount] : n \in 1 .. MaxLeaves} :
        \A i, j \in DOMAIN order : order[i] = order[j] => i = j}
      \cup {[i \in 1 .. KwLeafCount |-> i], [i \in 1 .. KwLeafCount |-> KwLeafCount + 1 - i]}

KeywordTrees ==
    {[tree |-> TreeNode(RootId, {FALSE}, << >>, << >>,
                        [j \in 1 .. Len(order) |-> KwLeaf(order[j])])] : order \in KwOrders}
      \cup (LocateTrees \ {TreeOf(<< >>)})

KeywordQueries ==
    LocateQueries \cup {<<"a", "n", "t", " ", "t", "e", "a">>, <<"y", "e", "w">>}

\* top_k given, or None (0) with the top_k of the configuration
KeywordTopKs ==
    {[top_k |-> k, config |-> LocateConfig] : k \in {-1} \cup (1 .. (DefaultTopK + 2))}
      \cup {[top_k |-> 0, config |-> RagConfig(k, DefaultDenseWeight, DefaultBm25Weight, TRUE, 0)] :
               k \in {1, DefaultTopK, DefaultTopK + 2}}

\* mock = True, with or without a client
KeywordMock ==
    /\ lc_pc = "ready"
    /\ \E client \in BOOLEAN, k \in KeywordTopKs :
           LocateNodesCall(k.config, client, TRUE, k.top_k, NoChat)

\* mock = False, client = None
KeywordNoClient ==
    /\ lc_pc = "ready"
    /\ \E k \in KeywordTopKs : LocateNodesCall(k.config, FALSE, FALSE, k.top_k, NoChat)

InitKeyword ==
    /\ ClientIdle
    /\ RerankIdle
    /\ PipelineIdle
    /\ CallIdle
    /\ LocateReady
    /\ \E query \in KeywordQueries, tree_data \in KeywordTrees :
         lc_args = [NoLocateArgs EXCEPT !.query = query, !.tree_data = tree_data]

NextKeyword ==
    \/ KeywordMock
    \/ KeywordNoClient

SpecKeyword == InitKeyword /\ [][NextKeyword]_vars

(***************************************************************************)
(* hybrid_retrieve on one IndexedNode: the node, the query and the vector  *)
(* embed_query_fn returns for it are given; a step is one call.            *)
(***************************************************************************)
HybridEmbeddings == {<<1, 0>>, <<0, 1>>, <<3, 4>>}

HybridNodeId == Str_n1

HybridChunk(j, embedding) ==
    Chunk(100 + (j - 1), <<"c", DigitChars[j + 1]>>, HybridNodeId, <<"A", "n", "t">>, embedding)

\* the chunk lists of a node: 0 .. MaxChunks + 1 chunks, each with an
\* embedding of its own choice
HybridChunkLists ==
    UNION {{[j \in 1 .. n |-> HybridChunk(j, embeddings[j])] :
               embeddings \in [1 .. n -> HybridEmbeddings]} : n \in 0 .. (MaxChunks + 1)}

\* the BM25 indexes a node with n chunks can hold, each given by the scores
\* get_scores returns for a query with tokens: one score per chunk (over one
\* empty document when there is no chunk), or one fewer or one more
HybridBm25Indexes(n) ==
    {[scores |-> [j \in 1 .. Max(1, n) |-> scores[j] * ScoreOne]] :
        scores \in [1 .. Max(1, n) -> {0, 1}]}
      \cup {[scores |-> [j \in 1 .. m |-> ScoreOne]] : m \in {Max(1, n - 1), n + 1}}

HybridQueries == {<<"a", "n", "t">>, <<"t", "h", "e">>}

HybridTopKs == 0 .. (MaxTopK + 1)

\* dense_weight and bm25_weight, in tenths
HybridWeights == {<<DefaultDenseWeight, DefaultBm25Weight>>, <<10, 0>>, <<3, 7>>}

HybridRetrieveCall(node, top_k, weights) ==
    /\ call_pc' = "done"
    /\ call_args' = [call_args EXCEPT !.node = node, !.top_k = top_k,
                                      !.dense_weight = weights[1], !.bm25_weight = weights[2]]
    /\ call_out' = [result |-> HybridRetrieve(node, call_args.query, top_k, weights[1],
                                              weights[2], call_args.query_embedding, 1),
                    embed_calls |-> HybridEmbedCalls(node)]
    /\ UNCHANGED notCallVars

\* the node has no chunks (its bm25_index was built over one empty document)
HybridNoChunks ==
    /\ call_pc = "ready" /\ call_args.fn = "hybrid_retrieve"
    /\ call_args.chunks = << >>
    /\ \E top_k \in HybridTopKs, weights \in HybridWeights, bm25_index \in HybridBm25Indexes(0) :
         HybridRetrieveCall(IndexedNode(HybridNodeId, <<"A", "n", "t">>, << >>, {bm25_index}),
                            top_k, weights)

\* the node has chunks and a BM25 index
HybridWithBm25 ==
    /\ call_pc = "ready" /\ call_args.fn = "hybrid_retrieve"
    /\ call_args.chunks # << >>
    /\ \E top_k \in HybridTopKs, weights \in HybridWeights,
          bm25_index \in HybridBm25Indexes(Len(call_args.chunks)) :
         HybridRetrieveCall(IndexedNode(HybridNodeId, <<"A", "n", "t">>, call_args.chunks,
                                        {bm25_index}),
                            top_k, weights)

\* the node has chunks, its bm25_index is None
HybridWithoutBm25 ==
    /\ call_pc = "ready" /\ call_args.fn = "hybrid_retrieve"
    /\ call_args.chunks # << >>
    /\ \E top_k \in HybridTopKs, weights \in HybridWeights :
         HybridRetrieveCall(IndexedNode(HybridNodeId, <<"A", "n", "t">>, call_args.chunks, {}),
                            top_k, weights)

InitHybrid ==
    /\ OthersIdle
    /\ call_pc = "ready"
    /\ call_out = [result |-> << >>, embed_calls |-> 0]
    /\ \E chunks \in HybridChunkLists, query \in HybridQueries,
          query_embedding \in {<<1, 0>>, <<3, 4>>, << >>} :
         call_args = [fn |-> "hybrid_retrieve", chunks |-> chunks, query |-> query,
                      query_embedding |-> query_embedding,
                      node |-> IndexedNode(HybridNodeId, <<"A", "n", "t">>, chunks, {}),
                      top_k |-> 0, dense_weight |-> 0, bm25_weight |-> 0]

NextHybrid == HybridNoChunks \/ HybridWithBm25 \/ HybridWithoutBm25

SpecHybrid == InitHybrid /\ [][NextHybrid]_vars

(***************************************************************************)
(* synthesize on one evidence list: the list is given; a step is one call, *)
(* with what client.chat_completion does when the call reaches it.         *)
(***************************************************************************)
SynthHeadings == <<<<"A", "n", "t">>, <<"T", "e", "a">>>>

\* evidence item number k: chunk k of the node with heading SynthHeadings
SynthItem(k) ==
    RetrievedChunk(k, Chunk(100 + k, <<"c", DigitChars[k + 1]>>, Str_n1,
                            SynthHeadings[(k % 2) + 1], <<1, 0>>),
                   k * Tick, EmptyDict)

\* the evidence lists: up to MaxChunks + 1 of MaxPool items, in every order
SynthEvidence ==
    UNION {{evidence \in [1 .. n -> {SynthItem(k) : k \in 1 .. MaxPool}] :
               \A i, j \in 1 .. n : i # j => evidence[i] # evidence[j]} :
           n \in 0 .. (MaxChunks + 1)}

\* the texts chat_completion can return
SynthAnswers == {<<"o", "k">>, <<"o", "k", " ", "[", "1", "]">>, << >>}

SynthesizeCall(client, mock, reply) ==
    /\ call_pc' = "done"
    /\ call_args' = [call_args EXCEPT !.client = client, !.mock = mock, !.reply = reply]
    /\ call_out' = [outcome |-> Synthesize(call_args.evidence, client, mock, reply),
                    chat_calls |-> IF SynthesizeCallsBackend(call_args.evidence, client, mock)
                                   THEN 1 ELSE 0]
    /\ UNCHANGED notCallVars

\* the evidence list is empty
SynthesizeNoEvidence ==
    /\ call_pc = "ready" /\ call_args.fn = "synthesize"
    /\ call_args.evidence = << >>
    /\ \E client, mock \in BOOLEAN : SynthesizeCall(client, mock, NoChat)

\* mock mode, or no client
SynthesizeLocal ==
    /\ call_pc = "ready" /\ call_args.fn = "synthesize"
    /\ call_args.evidence # << >>
    /\ \E client, mock \in BOOLEAN : (mock \/ ~client) /\ SynthesizeCall(client, mock, NoChat)

\* a client, mock off: chat_completion returns a text
SynthesizeBackendAnswers ==
    /\ call_pc = "ready" /\ call_args.fn = "synthesize"
    /\ call_args.evidence # << >>
    /\ \E chars \in SynthAnswers : SynthesizeCall(TRUE, FALSE, AnswerText(chars))

\* a client, mock off: chat_completion raises
SynthesizeBackendRaises ==
    /\ call_pc = "ready" /\ call_args.fn = "synthesize"
    /\ call_args.evidence # << >>
    /\ SynthesizeCall(TRUE, FALSE, ChatRaised)

InitSynthesize ==
    /\ OthersIdle
    /\ call_pc = "ready"
    /\ call_out = [outcome |-> [status |-> "none", answer |-> Literal("")], chat_calls |-> 0]
    /\ \E evidence \in SynthEvidence :
         call_args = [fn |-> "synthesize", evidence |-> evidence, client |-> FALSE,
                      mock |-> FALSE, reply |-> NoChat]

NextSynthesize ==
    \/ SynthesizeNoEvidence
    \/ SynthesizeLocal
    \/ SynthesizeBackendAnswers
    \/ SynthesizeBackendRaises

SpecSynthesize == InitSynthesize /\ [][NextSynthesize]_vars

(***************************************************************************)
(* chunk_content on one content: content and min_chars are given; a step   *)
(* is one call.                                                            *)
(***************************************************************************)
\* the case of test_chunk_overlap_is_applied
TestParagraphLen == 250
TestChunkSize == 100
TestOverlap == 20


\* the contents: the paragraph of the test; paragraphs of the same length
\* whose characters differ, without and with a blank where the first window
\* ends; short contents of one and two paragraphs
ChunkContents ==
    {[i \in 1 .. TestParagraphLen |-> "A"],
     CycleText(TestParagraphLen),
     [CycleText(TestParagraphLen) EXCEPT ![TestChunkSize] = " "],
     << >>,
     CycleText(30),
     <<" ">> \o CycleText(12) \o <<"\n", "\n">> \o CycleText(25) \o <<"\n">>,
     CycleText(8) \o <<"\n", "\n", "\n">> \o CycleText(120)}

ChunkSizes == {0, 10, TestChunkSize, DefaultChunkSize}
ChunkOverlaps == {0, TestOverlap, DefaultOverlap, 120}

\* the window moves by less than 10 characters only over the short contents
ChunkSteps(content, chunk_size, overlap) ==
    Len(content) <= DefaultOverlap \/ chunk_size - overlap >= 10
ChunkMinChars == 1 .. DefaultMinChars

ChunkContentCall(chunk_size, overlap) ==
    /\ call_pc' = "done"
    /\ call_args' = [call_args EXCEPT !.chunk_size = chunk_size, !.overlap = overlap]
    /\ call_out' = ChunkContent(call_args.content, chunk_size, overlap, call_args.min_chars)
    /\ UNCHANGED notCallVars

\* chunk_size <= 0: no chunks
ChunkSizeNotPositive ==
    /\ call_pc = "ready" /\ call_args.fn = "chunk_content"
    /\ \E chunk_size \in {c \in ChunkSizes : c <= 0}, overlap \in ChunkOverlaps :
         ChunkContentCall(chunk_size, overlap)

\* no paragraph is longer than chunk_size: each is one chunk, or dropped
ChunkWholeParagraphs ==
    /\ call_pc = "ready" /\ call_args.fn = "chunk_content"
    /\ \E chunk_size \in {c \in ChunkSizes : c > 0}, overlap \in ChunkOverlaps :
         /\ ChunkSteps(call_args.content, chunk_size, overlap)
         /\ \A i \in 1 .. Len(SplitParagraphs(call_args.content)) :
               Len(StrStrip(SplitParagraphs(call_args.content)[i])) <= chunk_size
         /\ ChunkContentCall(chunk_size, overlap)

\* a paragraph is longer than chunk_size: the sliding window cuts it
ChunkSlidingWindow ==
    /\ call_pc = "ready" /\ call_args.fn = "chunk_content"
    /\ \E chunk_size \in {c \in ChunkSizes : c > 0}, overlap \in ChunkOverlaps :
         /\ ChunkSteps(call_args.content, chunk_size, overlap)
         /\ \E i \in 1 .. Len(SplitParagraphs(call_args.content)) :
               Len(StrStrip(SplitParagraphs(call_args.content)[i])) > chunk_size
         /\ ChunkContentCall(chunk_size, overlap)

InitChunk ==
    /\ OthersIdle
    /\ call_pc = "ready"
    /\ call_out = << >>
    /\ \E content \in ChunkContents, min_chars \in ChunkMinChars :
         call_args = [fn |-> "chunk_content", content |-> content, min_chars |-> min_chars,
                      chunk_size |-> 0, overlap |-> 0]

NextChunk == ChunkSizeNotPositive \/ ChunkWholeParagraphs \/ ChunkSlidingWindow

SpecChunk == InitChunk /\ [][NextChunk]_vars

(***************************************************************************)
(* The index of one tree: build_index_from_tree, then save_index into a    *)
(* directory, then load_index from it.  The tree is given; a step is one   *)
(* of the three calls.                                                     *)
(***************************************************************************)
IndexLeafIds == {Str_n1, Str_n2, <<" ">> \o Str_n1}

\* contents that give no chunk, one chunk and two chunks
IndexContents ==
    {<< >>, CycleText(25), CycleText(22) \o <<"\n", "\n">> \o CycleText(30)}

\* the leaves: n2 has no heading_path of its own
IndexLeaves ==
    {IndexTreeNode(node_id, {TRUE}, <<"T", "e", "a">>,
                   IF node_id = Str_n2 THEN {} ELSE {<<"A", "n", "t">>}, content, << >>) :
        node_id \in IndexLeafIds, content \in IndexContents}

IndexTree(doc_id, leaves) ==
    [doc_id |-> doc_id,
     tree |-> IndexTreeNode(RootId, {FALSE}, <<"R", "O", "O", "T">>, {<< >>}, << >>, leaves)]

\* the trees: a root over 0 .. MaxLeaves leaves with a doc_id, and over at
\* most one leaf without
IndexTrees ==
    {IndexTree({<<"d">>}, leaves) :
        leaves \in UNION {[1 .. n -> IndexLeaves] : n \in 0 .. MaxLeaves}}
      \cup {IndexTree({}, leaves) : leaves \in UNION {[1 .. n -> IndexLeaves] : n \in 0 .. 1}}

NoFiles == [status |-> "none", error |-> "none"]

NoIndex == FullRagIndex(<< >>, [doc_id |-> {}], NoNodes, << >>)

BuildIndexCall(mock, client, embed) ==
    /\ call_pc' = IF BuildIndexFromTree(call_args.tree_data, mock, client, embed).status
                       = "returned"
                  THEN "built" ELSE "done"
    /\ call_args' = [call_args EXCEPT !.mock = mock, !.client = client, !.embed = embed]
    /\ call_out' = [call_out EXCEPT
                       !.build = BuildIndexFromTree(call_args.tree_data, mock, client, embed)]
    /\ UNCHANGED notCallVars

\* mock = True: the hash embedder, with or without a client
IndexBuildMock ==
    /\ call_pc = "ready" /\ call_args.fn = "index"
    /\ \E client \in BOOLEAN : BuildIndexCall(TRUE, client, "none")

\* mock = False with a client that answers every embeddings request
IndexBuildBackend ==
    /\ call_pc = "ready" /\ call_args.fn = "index"
    /\ \E embed \in {"full", "short", "ragged"} : BuildIndexCall(FALSE, TRUE, embed)

\* mock = False without a client (ValueError), or with a client whose
\* embeddings request raises (the build fails when it comes to embed)
IndexBuildFails ==
    /\ call_pc = "ready" /\ call_args.fn = "index"
    /\ \/ BuildIndexCall(FALSE, FALSE, "none")
       \/ BuildIndexCall(FALSE, TRUE, "raise")

\* save_index(index, output_dir)
IndexSave ==
    /\ call_pc = "built"
    /\ call_pc' = "saved"
    /\ call_out' = [call_out EXCEPT !.files = SaveIndex(call_out.build.index)]
    /\ UNCHANGED <<call_args, notCallVars>>

\* load_index(output_dir), by the caller that saved the index: it comes to
\* load only when save_index has returned
IndexLoad ==
    /\ call_pc = "saved"
    /\ call_out.files.status = "returned"
    /\ call_pc' = "loaded"
    /\ call_out' = [call_out EXCEPT !.loaded = LoadIndex(call_out.files)]
    /\ UNCHANGED <<call_args, notCallVars>>

InitIndex ==
    /\ OthersIdle
    /\ call_pc = "ready"
    /\ call_out = [build |-> [status |-> "none", index |-> NoIndex, error |-> "none"],
                   files |-> NoFiles, loaded |-> NoIndex]
    /\ \E tree_data \in IndexTrees :
         call_args = [fn |-> "index", tree_data |-> tree_data, mock |-> FALSE,
                      client |-> FALSE, embed |-> "none"]

NextIndex ==
    \/ IndexBuildMock
    \/ IndexBuildBackend
    \/ IndexBuildFails
    \/ IndexSave
    \/ IndexLoad

SpecIndex == InitIndex /\ [][NextIndex]_vars

(***************************************************************************)
(* chunk_content, statement by statement: a step is the entry of the       *)
(* function, one turn of the loop over the paragraphs, one turn of the     *)
(* while loop over the windows of a long paragraph, or the return.         *)
(* call_out holds the local variables: paragraphs, the position i of the   *)
(* current paragraph in it, start (-1 outside the while loop) and chunks.  *)
(***************************************************************************)
\* contents of one, two and three paragraphs, with blanks at the ends of a
\* paragraph and inside it
LoopContents ==
    {<< >>,
     CycleText(9),
     <<"a", "b", " ", " ", " ", "c", "d", "e">>,
     <<" ">> \o CycleText(4) \o <<"\n", "\n">> \o CycleText(11) \o <<"\n">>,
     CycleText(3) \o <<"\n", "\n", "\n", "\n">> \o CycleText(6) \o <<" ", " ", "x">>}

LoopChunkSizes == {-1, 0, 1, 2, 4, 12}
LoopOverlaps == {-2, 0, 1, 2, 4, 5, 20}
LoopMinChars == {0, 1, 2, 3, DefaultMinChars}

\* [para.strip() for para in content.split("\n\n")]
StrippedParagraphs(content) ==
    [i \in 1 .. Len(SplitParagraphs(content)) |-> StrStrip(SplitParagraphs(content)[i])]

\* the paragraph of the current turn
LoopParagraph == call_out.paragraphs[call_out.i]

LoopRunning == call_pc = "loop" /\ call_args.fn = "chunk_loop"

\* between two paragraphs, with a paragraph left
LoopAtParagraph ==
    /\ LoopRunning
    /\ call_out.start = -1
    /\ call_out.i <= Len(call_out.paragraphs)

\* chunker.py:12-20: chunk_size <= 0 returns [], else the loop is entered
ChunkEnter ==
    /\ call_pc = "ready" /\ call_args.fn = "chunk_loop"
    /\ call_pc' = IF call_args.chunk_size <= 0 THEN "done" ELSE "loop"
    /\ call_out' = IF call_args.chunk_size <= 0 THEN call_out
                   ELSE [call_out EXCEPT !.paragraphs = StrippedParagraphs(call_args.content)]
    /\ UNCHANGED <<call_args, notCallVars>>

\* chunker.py:22-23: the paragraph is shorter than min_chars
ChunkSkipParagraph ==
    /\ LoopAtParagraph
    /\ Len(LoopParagraph) < call_args.min_chars
    /\ call_out' = [call_out EXCEPT !.i = @ + 1]
    /\ UNCHANGED <<call_pc, call_args, notCallVars>>

\* chunker.py:25-27: the paragraph fits into one chunk
ChunkKeepParagraph ==
    /\ LoopAtParagraph
    /\ Len(LoopParagraph) >= call_args.min_chars
    /\ Len(LoopParagraph) <= call_args.chunk_size
    /\ call_out' = [call_out EXCEPT !.i = @ + 1, !.chunks = Append(@, LoopParagraph)]
    /\ UNCHANGED <<call_pc, call_args, notCallVars>>

\* chunker.py:29: start = 0
ChunkEnterWindows ==
    /\ LoopAtParagraph
    /\ Len(LoopParagraph) >= call_args.min_chars
    /\ Len(LoopParagraph) > call_args.chunk_size
    /\ call_out' = [call_out EXCEPT !.start = 0]
    /\ UNCHANGED <<call_pc, call_args, notCallVars>>

\* chunker.py:30-35: one turn of the while loop
ChunkWindowTurn ==
    /\ LoopRunning
    /\ call_out.start >= 0
    /\ call_out.start < Len(LoopParagraph)
    /\ call_out' =
         [call_out EXCEPT
            !.start = @ + WindowStep(call_args.chunk_size, call_args.overlap),
            !.chunks =
                IF Len(Piece(LoopParagraph, call_out.start, call_args.chunk_size))
                       >= call_args.min_chars
                THEN Append(@, Piece(LoopParagraph, call_out.start, call_args.chunk_size))
                ELSE @]
    /\ UNCHANGED <<call_pc, call_args, notCallVars>>

\* chunker.py:30: start has reached the end of the paragraph
ChunkLeaveWindows ==
    /\ LoopRunning
    /\ call_out.start >= 0
    /\ call_out.start >= Len(LoopParagraph)
    /\ call_out' = [call_out EXCEPT !.start = -1, !.i = @ + 1]
    /\ UNCHANGED <<call_pc, call_args, notCallVars>>

\* chunker.py:37: no paragraph is left
ChunkReturn ==
    /\ LoopRunning
    /\ call_out.start = -1
    /\ call_out.i > Len(call_out.paragraphs)
    /\ call_pc' = "done"
    /\ UNCHANGED <<call_args, call_out, notCallVars>>

InitChunkLoop ==
    /\ OthersIdle
    /\ call_pc = "ready"
    /\ call_out = [paragraphs |-> << >>, i |-> 1, start |-> -1, chunks |-> << >>]
    /\ \E content \in LoopContents, chunk_size \in LoopChunkSizes, overlap \in LoopOverlaps,
          min_chars \in LoopMinChars :
         call_args = [fn |-> "chunk_loop", content |-> content, min_chars |-> min_chars,
                      chunk_size |-> chunk_size, overlap |-> overlap]

NextChunkLoop ==
    \/ ChunkEnter
    \/ ChunkSkipParagraph
    \/ ChunkKeepParagraph
    \/ ChunkEnterWindows
    \/ ChunkWindowTurn
    \/ ChunkLeaveWindows
    \/ ChunkReturn

\* a call that is running takes its next step: the interpreter does not stop
\* in the middle of a function
SpecChunkLoop == InitChunkLoop /\ [][NextChunkLoop]_vars /\ WF_vars(NextChunkLoop)

(***************************************************************************)
(* Several run_pipeline calls over one RagIndex.  The objects the calls    *)
(* can reach are held in a heap: the Chunk objects of index.all_chunks     *)
(* come first, and every RetrievedChunk that hybrid_retrieve creates is a  *)
(* new object after them.  A node's chunk list and the chunk field of a    *)
(* RetrievedChunk hold references (positions in the heap), so that an      *)
(* assignment to a field of an object is seen through every reference to   *)
(* it.  A step is one stage of one call; the calls take their steps in any *)
(* order.                                                                  *)
(***************************************************************************)
\* a tree of leaves under the root: the leaf at position i has the id
\* LeafIds[ids[i]], so that the leaves need not come in the order of their
\* ids and two leaves can have one id
SharedTree(ids) ==
    [tree |-> TreeNode(RootId, {FALSE}, << >>, << >>,
                       [i \in 1 .. Len(ids) |->
                           TreeNode(LeafIds[ids[i]], {TRUE}, LeafHeadings[i], LeafSummaries[i],
                                    << >>)])]

\* the chunks of the leaf at position i of such a tree: those of ChunkAt, with
\* the chunk_id and the source_node_id of the leaf's id
SharedLeafChunks(id, i, count) ==
    [j \in 1 .. count |->
        [ChunkAt(i, j) EXCEPT !.chunk_id = 100 * id + (j - 1), !.source_node_id = LeafIds[id]]]

\* the loop of build_index_from_tree over the leaves in the order of the
\* tree, from leaf i on: the chunks of every leaf are appended to all_chunks
\* (index_store.py:116), and nodes[node_id] = IndexedNode(...) replaces the
\* node an earlier leaf of the same id has put there (121), whose chunks
\* stay in all_chunks
RECURSIVE SharedBuildLoop(_, _, _, _, _)
SharedBuildLoop(ids, counts, i, nodes, all_chunks) ==
    IF i > Len(ids) THEN FullRagIndex(<<"d">>, SharedTree(ids), nodes, all_chunks)
    ELSE SharedBuildLoop(ids, counts, i + 1,
                         (LeafIds[ids[i]] :>
                              [IndexedLeaf(i, counts[i]) EXCEPT
                                  !.node_id = LeafIds[ids[i]],
                                  !.chunks = SharedLeafChunks(ids[i], i, counts[i])]) @@ nodes,
                         all_chunks \o SharedLeafChunks(ids[i], i, counts[i]))

\* the index build_index_from_tree gives for the tree
SharedIndexOf(ids, counts) == SharedBuildLoop(ids, counts, 1, NoNodes, << >>)

\* the reference to the object among refs that is the given one
RefAmong(heap, refs, object) ==
    refs[CHOOSE j \in 1 .. Len(refs) : heap[refs[j]] = object]

\* the index as the calls hold it, over the heap that holds the objects of
\* index.all_chunks in their order: all_chunks and each chunk list hold
\* references
IndexOverHeap(index) ==
    FullRagIndex(index.doc_id, index.tree_data,
                 [id \in DOMAIN index.nodes |->
                     IndexedNode(id, index.nodes[id].heading_path,
                                 [j \in 1 .. Len(index.nodes[id].chunks) |->
                                     RefAmong(index.all_chunks,
                                              [a \in 1 .. Len(index.all_chunks) |-> a],
                                              index.nodes[id].chunks[j])],
                                 index.nodes[id].bm25_index)],
                 [a \in 1 .. Len(index.all_chunks) |-> a])

\* what reading through the references gives
NodeRead(heap, node) ==
    IndexedNode(node.node_id, node.heading_path,
                [j \in 1 .. Len(node.chunks) |-> heap[node.chunks[j]]], node.bm25_index)

IndexRead(heap, index) ==
    FullRagIndex(index.doc_id, index.tree_data,
                 [id \in DOMAIN index.nodes |-> NodeRead(heap, index.nodes[id])],
                 [a \in 1 .. Len(index.all_chunks) |-> heap[index.all_chunks[a]]])

ItemsRead(heap, refs) ==
    [i \in 1 .. Len(refs) |->
        RetrievedChunk(refs[i], heap[heap[refs[i]].chunk], heap[refs[i]].score,
                       heap[refs[i]].retrieval_detail)]

\* the object that item.score = ... and item.retrieval_detail[...] = ...
\* assign to (reranker.py:63-65): the RetrievedChunk, or the Chunk it wraps
AssignedObjectIsTheChunk(heap, item) == heap[item].chunk
AssignedObject(heap, item) == item

\* setattr on an object: the attribute is set, the others stay
SetAttrs(object, score, detail) ==
    [f \in DOMAIN object \cup {"score", "retrieval_detail"} |->
        IF f = "score" THEN score ELSE IF f = "retrieval_detail" THEN detail ELSE object[f]]

\* the assignments of the loop of _score_candidates, item by item
RECURSIVE StoreScores(_, _, _, _)
StoreScores(heap, refs, scored, i) ==
    IF i > Len(refs) THEN heap
    ELSE StoreScores([heap EXCEPT ![AssignedObject(heap, refs[i])] =
                         SetAttrs(@, scored[i].score, scored[i].retrieval_detail)],
                     refs, scored, i + 1)

\* the RetrievedChunk objects hybrid_retrieve creates, as they lie in the heap
NewObjects(heap, node, items) ==
    [i \in 1 .. Len(items) |->
        [chunk |-> RefAmong(heap, node.chunks, items[i].chunk), score |-> items[i].score,
         retrieval_detail |-> items[i].retrieval_detail]]

Oids(items) == [i \in 1 .. Len(items) |-> items[i].oid]

\* the indexes the calls share.  The leaves n2, n1 in this order, with 1 and
\* 2 chunks: all_chunks holds the chunk of n2 before those of n1.  The
\* leaves n2, n1, n2 with 1, 0 and 1 chunks: the node n1 has no chunk, the
\* node n2 is that of the last leaf, and the chunk of the first leaf is in
\* all_chunks and in no node
SharedIndexes ==
    {SharedIndexOf(<<2, 1>>, <<1, 2>>), SharedIndexOf(<<2, 1, 2>>, <<1, 0, 1>>)}

\* a call runs in mock mode without a client, or with a client
SharedCalls ==
    {[query |-> query, config |-> config, mock |-> mock, client |-> ~mock] :
        query \in LocateQueries, config \in PipeConfigs, mock \in BOOLEAN}

SharedRuns == 1 .. Len(call_args.queries)
SharedRun(r) == call_out.runs[r]
SharedArgs(r) == call_args.queries[r]
SharedBackend(r) == UsesBackend(SharedArgs(r).client, SharedArgs(r).mock)
SharedAt(r, pc) == call_args.fn = "shared_queries" /\ SharedRun(r).pc = pc

\* the replies to the node-location request the calls see
SharedLocateReplies ==
    LET tree_data == call_out.index.tree_data
    IN  {ChatRaised,
         ChatText("json", JObj("results" :>
             JList(<<ReplyEntry(JStr(LastLeafId(tree_data)), JStr(SubQueryText)),
                     ReplyEntryNoSubQuery(JStr(FirstLeafId(tree_data)))>>)))}

\* one step of call r: its local variables and the heap after the step
SharedStep(r, run, heap) ==
    /\ call_out' = [call_out EXCEPT !.runs[r] = run, !.heap = heap]
    /\ UNCHANGED <<call_pc, call_args, notCallVars>>

\* pipeline.py:27-39: locate_nodes and build_embedder
SharedLocated(r, locate_result) ==
    SharedStep(r,
        IF locate_result.status = "raised"
        THEN [SharedRun(r) EXCEPT !.pc = "raised", !.error = locate_result.error]
        ELSE IF BuildEmbedder(SharedArgs(r).mock, SharedArgs(r).client) = "ValueError"
        THEN [SharedRun(r) EXCEPT !.pc = "raised", !.error = "ValueError",
                                  !.located = locate_result.results,
                                  !.thinking = locate_result.thinking]
        ELSE [SharedRun(r) EXCEPT !.pc = IF locate_result.results = << >> THEN "rerank"
                                         ELSE "retrieve",
                                  !.located = locate_result.results,
                                  !.thinking = locate_result.thinking],
        call_out.heap)

SharedLocateStage(r, reply) ==
    SharedLocated(r, LocateNodes(SharedArgs(r).query, call_out.index.tree_data,
                                 SharedArgs(r).config, SharedArgs(r).client,
                                 SharedArgs(r).mock, SharedArgs(r).config.top_k, reply))

SharedLocateLocal ==
    \E r \in SharedRuns :
        /\ SharedAt(r, "locate") /\ ~SharedBackend(r)
        /\ SharedLocateStage(r, NoChat)

SharedLocateBackend ==
    \E r \in SharedRuns :
        /\ SharedAt(r, "locate") /\ SharedBackend(r)
        /\ \E reply \in SharedLocateReplies : SharedLocateStage(r, reply)

SharedNodeInfo(r) == SharedRun(r).located[SharedRun(r).next]
SharedNode(r) == call_out.index.nodes[SharedNodeInfo(r).node_id]

SharedNodeNeedsEmbedding(r) ==
    /\ SharedNodeInfo(r).node_id \in DOMAIN call_out.index.nodes
    /\ SharedNode(r).chunks # << >>

\* the loop of pipeline.py:48-67 moves on
SharedLoopOn(run) ==
    [run EXCEPT !.next = @ + 1,
                !.pc = IF run.next < Len(run.located) THEN "retrieve" ELSE "rerank"]

\* all_retrieved.extend(hybrid_retrieve(...)): the new objects enter the heap
SharedExtended(r, items) ==
    SharedStep(r, [SharedLoopOn(SharedRun(r)) EXCEPT !.pool = @ \o Oids(items)],
               call_out.heap \o NewObjects(call_out.heap, SharedNode(r), items))

SharedRetrieveStage(r, query_embedding) ==
    SharedExtended(r, HybridRetrieve(NodeRead(call_out.heap, SharedNode(r)),
                                     SharedNodeInfo(r).sub_query, SharedArgs(r).config.top_k,
                                     SharedArgs(r).config.dense_weight,
                                     SharedArgs(r).config.bm25_weight, query_embedding,
                                     Len(call_out.heap) + 1))

SharedRetrieveNothing ==
    \E r \in SharedRuns :
        /\ SharedAt(r, "retrieve") /\ ~SharedNodeNeedsEmbedding(r)
        /\ SharedStep(r, SharedLoopOn(SharedRun(r)), call_out.heap)

SharedRetrieveMock ==
    \E r \in SharedRuns :
        /\ SharedAt(r, "retrieve") /\ SharedNodeNeedsEmbedding(r) /\ SharedArgs(r).mock
        /\ SharedRetrieveStage(r, EmbedQuery(<<HashEmbedding(SharedNodeInfo(r).sub_query)>>))

SharedRetrieveEmbedded ==
    \E r \in SharedRuns :
        /\ SharedAt(r, "retrieve") /\ SharedNodeNeedsEmbedding(r) /\ ~SharedArgs(r).mock
        /\ \E vectors \in {<< >>, <<<<1, 0>>>>} : SharedRetrieveStage(r, EmbedQuery(vectors))

SharedRetrieveEmbedFails ==
    \E r \in SharedRuns :
        /\ SharedAt(r, "retrieve") /\ SharedNodeNeedsEmbedding(r) /\ ~SharedArgs(r).mock
        /\ SharedStep(r, [SharedRun(r) EXCEPT !.pc = "raised", !.error = "RuntimeError"],
                      call_out.heap)

\* rerank_chunks (pipeline.py:71-78): the scores are assigned to the objects
\* when the loop of _score_candidates ran, and the selection is bound
SharedReranked(r, items, scored) ==
    SharedStep(r,
        [SharedRun(r) EXCEPT
            !.pc = "synthesize",
            !.evidence = IF items = << >> THEN << >>
                         ELSE Oids(SelectWithNodeDiversity(scored, SharedArgs(r).config,
                                       ResolvedTopK(SharedArgs(r).config.top_k,
                                                    SharedArgs(r).config)))],
        IF scored = items THEN call_out.heap
        ELSE StoreScores(call_out.heap, SharedRun(r).pool, scored, 1))

SharedRerankStage(r, reply) ==
    SharedReranked(r, ItemsRead(call_out.heap, SharedRun(r).pool),
                   ScoreCandidates(ItemsRead(call_out.heap, SharedRun(r).pool),
                                   SharedArgs(r).client, SharedArgs(r).mock, reply))

SharedRerankLocal ==
    \E r \in SharedRuns :
        /\ SharedAt(r, "rerank") /\ (SharedRun(r).pool = << >> \/ ~SharedBackend(r))
        /\ SharedRerankStage(r, NoReply)

SharedRerankBackendFails ==
    \E r \in SharedRuns :
        /\ SharedAt(r, "rerank") /\ SharedRun(r).pool # << >> /\ SharedBackend(r)
        /\ SharedRerankStage(r, RaisedReply)

SharedRerankBackendScores ==
    \E r \in SharedRuns :
        /\ SharedAt(r, "rerank") /\ SharedRun(r).pool # << >> /\ SharedBackend(r)
        /\ \E scores \in BackendScoreVectors(Len(SharedRun(r).pool)) :
             SharedRerankStage(r, ScoresReply(scores))

\* synthesize and the return (pipeline.py:82-97)
SharedSynthesized(r, synthesis) ==
    SharedStep(r,
        IF synthesis.status = "raised"
        THEN [SharedRun(r) EXCEPT !.pc = "raised", !.error = "RuntimeError"]
        ELSE [SharedRun(r) EXCEPT
                 !.pc = "returned",
                 !.result = PipelineResult(SharedArgs(r).query, SharedRun(r).thinking,
                                           SharedRun(r).located, SharedRun(r).evidence,
                                           synthesis.answer)],
        call_out.heap)

SharedEvidence(r) == ItemsRead(call_out.heap, SharedRun(r).evidence)

SharedSynthesizeCallsBackend(r) ==
    SynthesizeCallsBackend(SharedEvidence(r), SharedArgs(r).client, SharedArgs(r).mock)

SharedSynthesizeStage(r, reply) ==
    SharedSynthesized(r, Synthesize(SharedEvidence(r), SharedArgs(r).client,
                                    SharedArgs(r).mock, reply))

SharedSynthesizeLocal ==
    \E r \in SharedRuns :
        /\ SharedAt(r, "synthesize") /\ ~SharedSynthesizeCallsBackend(r)
        /\ SharedSynthesizeStage(r, NoChat)

SharedSynthesizeBackend ==
    \E r \in SharedRuns :
        /\ SharedAt(r, "synthesize") /\ SharedSynthesizeCallsBackend(r)
        /\ SharedSynthesizeStage(r, AnswerText(<<"o", "k">>))

SharedSynthesizeFails ==
    \E r \in SharedRuns :
        /\ SharedAt(r, "synthesize") /\ SharedSynthesizeCallsBackend(r)
        /\ SharedSynthesizeStage(r, ChatRaised)

FreshRun ==
    [pc |-> "locate", located |-> << >>, thinking |-> Literal(""), next |-> 1,
     pool |-> << >>, evidence |-> << >>, error |-> "none", result |-> NoPipeResult]

InitShared ==
    /\ OthersIdle
    /\ call_pc = "ready"
    /\ \E index \in SharedIndexes, first \in SharedCalls, second \in SharedCalls :
         /\ call_args = [fn |-> "shared_queries", index |-> index,
                         queries |-> <<first, second>>]
         /\ call_out = [index |-> IndexOverHeap(index), heap |-> index.all_chunks,
                        runs |-> <<FreshRun, FreshRun>>]

NextShared ==
    \/ SharedLocateLocal
    \/ SharedLocateBackend
    \/ SharedRetrieveNothing
    \/ SharedRetrieveMock
    \/ SharedRetrieveEmbedded
    \/ SharedRetrieveEmbedFails
    \/ SharedRerankLocal
    \/ SharedRerankBackendFails
    \/ SharedRerankBackendScores
    \/ SharedSynthesizeLocal
    \/ SharedSynthesizeBackend
    \/ SharedSynthesizeFails

SpecShared == InitShared /\ [][NextShared]_vars

(***************************************************************************)
(* Claims about run_pipeline.                                              *)
(***************************************************************************)
\* C2: once node location has returned at least one node, run_pipeline does
\* not raise, whatever the query embedding, the rerank request and the
\* synthesis chat completion do: a run that has ended and had located a node
\* has returned a PipelineResult.
C2_NoAbortAfterLocation ==
    (PipeUsesBackend /\ pp_located # << >> /\ pp_pc \in {"returned", "raised"}) =>
        /\ pp_pc = "returned"
        /\ pp_result.step1_nodes = pp_located

(***************************************************************************)
(* Claims about locate_nodes.                                              *)
(***************************************************************************)
LcDone == lc_pc = "done"

\* the call went to the backend: a client, and mock = False
LcUsesBackend == lc_args.client /\ ~lc_args.mock

\* an entry of "results" that names a leaf of the tree
LcValidEntry(entry) ==
    /\ entry.t = "obj"
    /\ "node_id" \in DOMAIN entry.fields
    /\ entry.fields["node_id"].t = "str"
    /\ \E i \in 1 .. Len(LeafNodes(lc_args.tree_data)) :
          LeafNodes(lc_args.tree_data)[i].node_id = StrStrip(entry.fields["node_id"].s)

\* the backend outcomes of the claim: chat_completion raised; the text is no
\* JSON; it is JSON of another shape (no object, "results" missing or no
\* list); or no entry of "results" names a leaf
LcBackendFailed ==
    \/ lc_reply.kind = "raise"
    \/ /\ lc_reply.kind = "text"
       /\ \/ lc_reply.form \in {"prose", "braces"}
          \/ lc_reply.value.t # "obj"
          \/ /\ lc_reply.value.t = "obj"
             /\ \/ "results" \notin DOMAIN lc_reply.value.fields
                \/ lc_reply.value.fields["results"].t # "list"
                \/ /\ lc_reply.value.fields["results"].t = "list"
                   /\ \A i \in 1 .. Len(lc_reply.value.fields["results"].items) :
                         ~LcValidEntry(lc_reply.value.fields["results"].items[i])

\* C1: locate_nodes called with a client and mock = False on a tree with at
\* least one leaf never raises and never returns an empty result, and for
\* every failed backend outcome (raise, unparsable text, JSON of another
\* shape, no leaf id among the entries) it returns exactly the results and
\* the reasoning text of the keyword strategy for the same query, tree and
\* top_k.
C1_FallbackOnEveryBackendFailure ==
    (LcDone /\ LcUsesBackend /\ LeafNodes(lc_args.tree_data) # << >>) =>
        /\ lc_out.status = "returned"
        /\ lc_out.results # << >>
        /\ LcBackendFailed =>
              LET keyword == KeywordLocate(lc_args.query, lc_args.tree_data,
                                           Max(1, Min(IF lc_args.top_k # 0 THEN lc_args.top_k
                                                      ELSE lc_args.config.top_k, 5)))
              IN  /\ lc_out.results = keyword.results
                  /\ lc_out.thinking = keyword.thinking

(***************************************************************************)
(* Claims about rerank_chunks.                                             *)
(***************************************************************************)
RrDone == rr_pc = "done"

RrResolvedTopK == Max(1, IF rr_args.top_k # 0 THEN rr_args.top_k ELSE rr_args.config.top_k)

\* k = min(resolved top_k, n)
RrK == Min(RrResolvedTopK, Len(rr_args.pool))

NodesOf(chunks) == {chunks[i].chunk.source_node_id : i \in 1 .. Len(chunks)}

ChunksOf(chunks) == [i \in 1 .. Len(chunks) |-> chunks[i].chunk]

\* a ranks strictly above b under (score desc, fused_score desc, chunk_id asc)
RanksAbove(a, b) ==
    LET fa == IF "fused_score" \in DOMAIN a.retrieval_detail
              THEN a.retrieval_detail["fused_score"] ELSE 0
        fb == IF "fused_score" \in DOMAIN b.retrieval_detail
              THEN b.retrieval_detail["fused_score"] ELSE 0
    IN  \/ a.score > b.score
        \/ a.score = b.score /\ fa > fb
        \/ a.score = b.score /\ fa = fb /\ a.chunk.chunk_id < b.chunk.chunk_id

RrBackendFailed ==
    \/ rr_reply.kind = "raise"
    \/ rr_reply.kind = "scores" /\ Len(rr_reply.scores) # Len(rr_args.pool)

\* the plain top-k of the pool as it is after scoring: k candidates in rank
\* order, each ranking above every candidate left out
IsPlainTopK(result) ==
    /\ Len(result) = RrK
    /\ \A i \in 1 .. Len(result) : \E j \in 1 .. Len(rr_pool) : result[i] = rr_pool[j]
    /\ \A i, j \in 1 .. Len(result) : i < j => RanksAbove(result[i], result[j])
    /\ \A i \in 1 .. Len(result) : \A j \in 1 .. Len(rr_pool) :
          (\A m \in 1 .. Len(result) : result[m].oid # rr_pool[j].oid)
              => RanksAbove(result[i], rr_pool[j])

\* C3: when client.rerank raises or returns a score list of another length
\* than the pool, rerank_chunks returns normally, every candidate keeps its
\* score and its retrieval_detail map (no rerank_score key anywhere), and the
\* result is the selection mock mode makes of the same candidates with the
\* same config and top_k.
C3_RerankFailureKeepsFusedScores ==
    (RrDone /\ RrBackendFailed) =>
        /\ rr_pool = rr_args.pool
        /\ \A i \in 1 .. Len(rr_pool) : "rerank_score" \notin DOMAIN rr_pool[i].retrieval_detail
        /\ rr_result = SelectWithNodeDiversity(
                           ScoreCandidates(rr_args.pool, FALSE, TRUE, NoReply),
                           rr_args.config, RrResolvedTopK)

\* C3 witness: the backend raised on a pool where the coverage rule decides
\* the selection (the result is not the plain top-k).
C3_Witness ==
    /\ RrDone
    /\ rr_reply.kind = "raise"
    /\ rr_args.config.rerank_diversify
    /\ Len(rr_result) = 2
    /\ ~IsPlainTopK(rr_result)

\* C6: for a non-empty pool of n candidates the result has exactly
\* k = min(resolved top_k, n) items, each one a candidate of the pool, none
\* twice, and with diversify set they cover at least T distinct source nodes:
\* T = min(U, k, rerank_min_unique_nodes) for an override > 0, else
\* T = min(U, k, ceil(k/2)), U the number of distinct nodes of the pool.
C6_SizeAndCoverage ==
    (RrDone /\ rr_args.pool # << >>) =>
        LET k == RrK
            U == Cardinality(NodesOf(rr_args.pool))
            override == rr_args.config.rerank_min_unique_nodes
            T == IF override > 0 THEN Min(U, Min(k, override))
                 ELSE Min(U, Min(k, (k + 1) \div 2))
        IN  /\ Len(rr_result) = k
            /\ \A i \in 1 .. k : \E j \in 1 .. Len(rr_pool) : rr_result[i] = rr_pool[j]
            /\ \A i, j \in 1 .. k : i # j => rr_result[i].oid # rr_result[j].oid
            /\ (rr_args.config.rerank_diversify => Cardinality(NodesOf(rr_result)) >= T)

\* C6 witness: automatic target, four candidates, top_k 3, and the coverage
\* rule has put a candidate into the result that the plain top-3 leaves out.
C6_Witness ==
    /\ RrDone
    /\ Len(rr_args.pool) = 4
    /\ rr_args.top_k = 3
    /\ rr_args.config.rerank_diversify
    /\ rr_args.config.rerank_min_unique_nodes = 0
    /\ Cardinality(NodesOf(rr_result)) = 2
    /\ ~IsPlainTopK(rr_result)

\* C7: the result is in (score desc, fused_score desc, chunk_id asc) order and
\* its first item is the candidate that ranks above every other candidate of
\* the pool, for every top_k, flag and override; for a resolved top_k of 1 the
\* result is that candidate alone.
C7_SortedAndLedByGlobalBest ==
    (RrDone /\ rr_args.pool # << >>) =>
        /\ \A i, j \in 1 .. Len(rr_result) :
              i < j => RanksAbove(rr_result[i], rr_result[j])
        /\ Len(rr_result) >= 1
        /\ \A j \in 1 .. Len(rr_pool) :
              rr_pool[j].oid # rr_result[1].oid => RanksAbove(rr_result[1], rr_pool[j])
        /\ \E j \in 1 .. Len(rr_pool) : rr_result[1] = rr_pool[j]
        /\ (RrResolvedTopK = 1 => Len(rr_result) = 1)

\* C7 witness: the backend scored all candidates alike, so fused_score and
\* chunk_id decide the order, and the coverage rule has changed the selection.
C7_Witness ==
    /\ RrDone
    /\ rr_reply.kind = "scores"
    /\ Len(rr_pool) = 3
    /\ \A i \in 1 .. 3 : rr_pool[i].score = rr_pool[1].score
    /\ Len(rr_result) = 2
    /\ rr_args.config.rerank_diversify
    /\ ~IsPlainTopK(rr_result)

\* C8: when diversify is off, or all candidates are of one source node, the
\* result is the plain top-k of the pool in rank order.
C8_PlainTopKWhenNoDiversity ==
    (RrDone /\ rr_args.pool # << >>
        /\ (~rr_args.config.rerank_diversify \/ Cardinality(NodesOf(rr_args.pool)) = 1))
        => IsPlainTopK(rr_result)

\* C8 witness: diversify is off on a pool where it would have changed the
\* result: the best two candidates are of one node, a third node is left out.
C8_Witness ==
    /\ RrDone
    /\ ~rr_args.config.rerank_diversify
    /\ Len(rr_args.pool) = 4
    /\ Len(rr_result) = 3
    /\ Cardinality(NodesOf(rr_args.pool)) = 2
    /\ Cardinality(NodesOf(rr_result)) = 1

\* the candidates of the pool, listed by ascending chunk_id
PoolByChunkId ==
    LET pool == rr_args.pool
        rank(i) == Cardinality({j \in 1 .. Len(pool) :
                                  pool[j].chunk.chunk_id <= pool[i].chunk.chunk_id})
    IN  [r \in 1 .. Len(pool) |-> pool[CHOOSE i \in 1 .. Len(pool) : rank(i) = r]]

\* C9: with distinct chunk ids and the scores left as they came (mock mode or
\* a failed backend call) the chunks returned, in order, are the same for
\* every order of the pool: they equal the ones returned for the same
\* candidates listed by ascending chunk_id.
C9_ArrivalOrderIrrelevant ==
    RrDone =>
        ChunksOf(rr_result) =
            ChunksOf(SelectWithNodeDiversity(
                         ScoreCandidates(PoolByChunkId, rr_args.client, rr_args.mock, rr_reply),
                         rr_args.config, RrResolvedTopK))

\* C9 witness: three candidates with equal scores arrived in an order that is
\* neither ascending nor descending in chunk_id, and two were selected.
C9_Witness ==
    /\ RrDone
    /\ Len(rr_args.pool) = 3
    /\ rr_args.pool[1].chunk.chunk_id = 2
    /\ rr_args.pool[2].chunk.chunk_id = 3
    /\ \A i \in 1 .. 3 : rr_args.pool[i].score = rr_args.pool[1].score
    /\ Len(rr_result) = 2

\* C10: a rerank_chunks call that uses the backend makes one client.rerank
\* call, with the text of every candidate in pool order and top_n = None; the
\* generic body built from it has no top_n field, the vendor-native body has
\* parameters.top_n equal to the number of documents.
C10_RerankRequestNotTruncated ==
    RrDone =>
        /\ Len(rr_requests) =
              (IF rr_args.pool # << >> /\ rr_args.client /\ ~rr_args.mock THEN 1 ELSE 0)
        /\ \A r \in 1 .. Len(rr_requests) :
              LET call == rr_requests[r]
                  generic == RerankPayload(FALSE, call.model, call.query,
                                           call.documents, call.top_n)
                  native == RerankPayload(TRUE, call.model, call.query,
                                          call.documents, call.top_n)
              IN  /\ call.documents = [i \in 1 .. Len(rr_args.pool) |-> rr_args.pool[i].chunk.text]
                  /\ call.top_n = {}
                  /\ "top_n" \notin DOMAIN generic
                  /\ generic.documents = call.documents
                  /\ native.input.documents = call.documents
                  /\ native.parameters.top_n = Len(rr_args.pool)

\* C10 witness: the backend was asked about three candidates by a call whose
\* top_k is 1.
C10_Witness ==
    /\ RrDone
    /\ Len(rr_requests) = 1
    /\ Len(rr_requests[1].documents) = 3
    /\ rr_args.top_k = 1

(***************************************************************************)
(* Claims about _post_json.                                                *)
(***************************************************************************)
PjDone == pj_pc \in {"returned", "raised"}

RetryableOutcome(o) ==
    \/ o.kind = "http" /\ o.status \in {429, 500, 502, 503, 504}
    \/ o.kind = "network"
    \/ o.kind = "badjson"

\* C4: a _post_json call makes at most max_retries (>= 1) HTTP attempts and is
\* over once it has made max_retries of them; every attempt but the last one
\* failed with HTTP 429/500/502/503/504, a network failure or an unparsable
\* body and was followed by a wait of retry_backoff_seconds * 2^(n-1); the
\* first parsable body ends the call with a return; a failure of one of these
\* kinds on attempt max_retries raises RuntimeError with no wait after it.
C4_BoundedRetries ==
    /\ max_retries >= 1
    /\ Len(pj_attempts) <= max_retries
    /\ (Len(pj_attempts) = max_retries => PjDone)
    /\ Len(pj_waits) = (IF PjDone THEN Len(pj_attempts) - 1 ELSE Len(pj_attempts))
    /\ \A n \in 1 .. Len(pj_waits) :
          /\ RetryableOutcome(pj_attempts[n])
          /\ pj_waits[n] = retry_backoff_seconds * Pow2(n - 1)
    /\ \A n \in 1 .. Len(pj_attempts) :
          pj_attempts[n].kind = "ok" => (n = Len(pj_attempts) /\ pj_pc = "returned")
    /\ (pj_pc = "returned" => Last(pj_attempts).kind = "ok")
    /\ (Len(pj_attempts) = max_retries /\ RetryableOutcome(Last(pj_attempts))
          => pj_pc = "raised" /\ pj_error.type = "RuntimeError")

\* C4 witness: three attempts were allowed, two were retried with waits, and
\* the third failed in a retryable way, so the call has raised.
C4_Witness ==
    /\ max_retries = 3
    /\ retry_backoff_seconds = 1
    /\ Len(pj_attempts) = 3
    /\ pj_attempts[1].kind = "http"
    /\ pj_attempts[2].kind = "badjson"
    /\ pj_attempts[3].kind = "network"
    /\ pj_waits = <<1, 2>>
    /\ pj_pc = "raised"

\* C5: an HTTP error status outside {429, 500, 502, 503, 504} ends the call at
\* that attempt: RuntimeError carrying the status, no wait after the attempt,
\* no further attempt, whatever number of attempts remain.
C5_OtherStatusRaisesAtOnce ==
    \A n \in 1 .. Len(pj_attempts) :
        (pj_attempts[n].kind = "http" /\ pj_attempts[n].status \notin {429, 500, 502, 503, 504})
            => /\ n = Len(pj_attempts)
               /\ pj_pc = "raised"
               /\ pj_error = [type |-> "RuntimeError", status |-> pj_attempts[n].status]
               /\ Len(pj_waits) = n - 1

\* C5 witness: the first attempt was retried, the second got HTTP 404 while a
\* third attempt was still allowed, and the call has raised.
C5_Witness ==
    /\ max_retries = 3
    /\ Len(pj_attempts) = 2
    /\ pj_attempts[1] = Outcome("http", 503)
    /\ pj_attempts[2] = Outcome("http", 404)
    /\ pj_pc = "raised"
    /\ pj_error.status = 404

(***************************************************************************)
(* Claims about the client's reading of the rerank response.               *)
(***************************************************************************)
RsDone == call_pc = "done" /\ call_args.fn = "rerank"

\* the list of entries with indexes the response holds, under either shape
RsIndexedList ==
    IF call_args.data.t # "obj" THEN << >>
    ELSE IF "results" \in DOMAIN call_args.data.fields
         THEN (IF call_args.data.fields["results"].t = "list"
               THEN call_args.data.fields["results"].items ELSE << >>)
         ELSE IF "output" \in DOMAIN call_args.data.fields
              THEN (IF call_args.data.fields["output"].t = "obj"
                    THEN (IF "results" \in DOMAIN call_args.data.fields["output"].fields
                          THEN call_args.data.fields["output"].fields["results"].items
                          ELSE << >>)
                    ELSE << >>)
              ELSE << >>

RsIsEntry(item, n) ==
    /\ item.t = "obj"
    /\ DOMAIN item.fields = {"index", "relevance_score"}
    /\ item.fields["index"].t = "num"
    /\ item.fields["index"].n \in 0 .. (n - 1)
    /\ item.fields["relevance_score"].t = "float"

\* the response scores every document once: one entry per index
RsAligned ==
    /\ Len(RsIndexedList) = call_args.documents
    /\ \A i \in 1 .. Len(RsIndexedList) : RsIsEntry(RsIndexedList[i], call_args.documents)
    /\ \A i, j \in 1 .. Len(RsIndexedList) :
         RsIndexedList[i].fields["index"] = RsIndexedList[j].fields["index"] => i = j

\* a flat data list with one entry per document
RsFlatList ==
    IF call_args.data.t = "obj" /\ DOMAIN call_args.data.fields = {"data"}
    THEN (IF call_args.data.fields["data"].t = "list"
          THEN call_args.data.fields["data"].items ELSE << >>)
    ELSE << >>

RsFlatScore(item) == IF item.t = "obj" THEN item.fields["relevance_score"].n ELSE item.n

\* C11: for a response that scores every document once (results or
\* output.results, the entries in any order) client.rerank returns one score
\* per document and position i holds the relevance_score of the entry whose
\* index is i; for a flat data list with one entry per document position i
\* holds the score of the i-th entry.
C11_ScoresAlignedWithDocuments ==
    /\ (RsDone /\ call_args.documents > 0 /\ RsAligned) =>
          /\ call_out.status = "returned"
          /\ Len(call_out.scores) = call_args.documents
          /\ \A i \in 1 .. Len(RsIndexedList) :
               call_out.scores[RsIndexedList[i].fields["index"].n + 1]
                   = RsIndexedList[i].fields["relevance_score"].n
    /\ (RsDone /\ call_args.documents > 0 /\ Len(RsFlatList) = call_args.documents) =>
          /\ call_out.status = "returned"
          /\ Len(call_out.scores) = call_args.documents
          /\ \A i \in 1 .. Len(RsFlatList) : call_out.scores[i] = RsFlatScore(RsFlatList[i])

\* Witness of C11: three documents, the vendor-native response lists the
\* entry of index 2 first and the entry of index 0 last with another score,
\* and the call has returned the scores in document order.
C11_Witness ==
    /\ RsDone
    /\ call_args.documents = 3
    /\ "output" \in DOMAIN call_args.data.fields
    /\ RsAligned
    /\ RsIndexedList[1].fields["index"].n = 2
    /\ RsIndexedList[3].fields["index"].n = 0
    /\ RsIndexedList[1].fields["relevance_score"].n = 2
    /\ RsIndexedList[3].fields["relevance_score"].n = 1
    /\ call_out.status = "returned"
    /\ call_out.scores[3] = 2
    /\ call_out.scores[1] = 1

(***************************************************************************)
(* Claims about the client methods.                                        *)
(***************************************************************************)
CmDone == call_pc = "done" /\ call_args.fn \in ClientMethods

\* the method raised because the document lacks its fields
CmFormatError ==
    /\ call_out.status = "raised"
    /\ call_out.message \in {"Invalid chat completion response format.",
                             "Invalid embeddings response format.",
                             "Invalid rerank response format."}

\* C12: a response that parses as JSON but lacks the expected fields is
\* retried like a body that is no JSON: the method surfaces the format
\* error only when no attempt remains, that is after max_retries requests.
C12_MissingFieldsAreRetried ==
    (CmDone /\ CmFormatError) => Len(pj_attempts) = max_retries

(***************************************************************************)
(* Claims about the keyword strategy.                                      *)
(***************************************************************************)
KwDone == lc_pc = "done" /\ (lc_args.mock \/ ~lc_args.client)

KwLeaves == LeafNodes(lc_args.tree_data)

\* the top_k the caller asked for: the argument, or that of the configuration
\* when the argument is None or 0
KwTopK == IF lc_args.top_k = 0 THEN lc_args.config.top_k ELSE lc_args.top_k

\* the number of results the strategy may return at most
KwLimit == Max(1, Min(KwTopK, 5))

KwQueryTokens == SeqToSet(Tokenize(lc_args.query))

\* four times the score of the leaf with this id: 4 per token the query
\* shares with heading + summary, 1 per query token that is a substring of
\* the lower-cased text
KwScore(node_id) ==
    LET node == KwLeaves[CHOOSE i \in 1 .. Len(KwLeaves) : KwLeaves[i].node_id = node_id]
        text == StrStrip(node.heading \o <<" ">> \o node.summary)
    IN  4 * Cardinality(KwQueryTokens \cap SeqToSet(Tokenize(text)))
          + Cardinality({token \in KwQueryTokens : StrContains(token, StrLower(text))})

\* C13, as stated: on a tree with leaves the keyword strategy never returns
\* more than min(top_k, 5) results, whatever top_k the caller passes.
C13_AtMostMinTopKFive ==
    (KwDone /\ KwLeaves # << >> /\ lc_args.top_k # 0) =>
        /\ lc_out.status = "returned"
        /\ Len(lc_out.results) >= 1
        /\ Len(lc_out.results) <= Min(lc_args.top_k, 5)

\* C13, amended: on a tree with leaves the keyword strategy returns between
\* 1 and max(1, min(top_k, 5)) results, each a non-root leaf, in
\* non-increasing order of score, each with the query as sub_query.
C13_KeywordRanking ==
    (KwDone /\ KwLeaves # << >>) =>
        /\ lc_out.status = "returned"
        /\ Len(lc_out.results) >= 1
        /\ Len(lc_out.results) <= KwLimit
        /\ \A i \in 1 .. Len(lc_out.results) :
             /\ lc_out.results[i].node_id \in LeafIdsOf(lc_args.tree_data)
             /\ lc_out.results[i].node_id # RootId
             /\ lc_out.results[i].sub_query = lc_args.query
        /\ \A i, j \in 1 .. Len(lc_out.results) :
             i < j => KwScore(lc_out.results[i].node_id) >= KwScore(lc_out.results[j].node_id)

\* Witness of C13: six leaves in reverse order, the query "ant tea", top_k 7:
\* five results, led by the leaf that holds both tokens (score 2.5) and
\* closed by the leaf that scores by a substring only (0.25), the leaf
\* scoring 0 left out.
C13_Witness ==
    /\ KwDone
    /\ Len(KwLeaves) = 6
    /\ KwLeaves[1].node_id = KwLeafId(6)
    /\ lc_args.query = <<"a", "n", "t", " ", "t", "e", "a">>
    /\ lc_args.top_k = 7
    /\ lc_out.status = "returned"
    /\ Len(lc_out.results) = 5
    /\ lc_out.results[1].node_id = KwLeafId(4)
    /\ KwScore(KwLeafId(4)) = 10
    /\ lc_out.results[5].node_id = KwLeafId(2)
    /\ KwScore(KwLeafId(2)) = 1
    /\ KwScore(KwLeafId(5)) = 0

\* every leaf of the tree scores zero against the query
KwAllZero == \A id \in LeafIdsOf(lc_args.tree_data) : KwScore(id) = 0

\* C14: when every leaf scores zero against the query, the keyword strategy
\* returns a one-element result, the single highest-ranked node.
C14_AllZeroGivesOneResult ==
    (KwDone /\ KwLeaves # << >> /\ KwAllZero) =>
        /\ lc_out.status = "returned"
        /\ Len(lc_out.results) = 1
        /\ lc_out.results[1].node_id = KwLeaves[1].node_id

\* the reply parsed to an object whose "results" is a list
LcResultList ==
    /\ lc_reply.kind = "text"
    /\ lc_reply.form \in {"json", "wrapped"}
    /\ lc_reply.value.t = "obj"
    /\ "results" \in DOMAIN lc_reply.value.fields
    /\ lc_reply.value.fields["results"].t = "list"

\* the entries of the reply that name a leaf, in the backend's order
LcValidEntries == SelectSeq(lc_reply.value.fields["results"].items, LcValidEntry)

\* the sub_query an entry asks for: its own, or the query when the entry has
\* none or a blank one
LcSubQueryOrQuery(entry) ==
    IF "sub_query" \in DOMAIN entry.fields /\ StrStrip(PyStr(entry.fields["sub_query"])) # << >>
    THEN StrStrip(PyStr(entry.fields["sub_query"]))
    ELSE lc_args.query

\* the same, except that for an entry without sub_query the query is
\* stripped of the whitespace around it, unless it is all whitespace: then
\* it is the query as it is
LcSubQueryOrStrippedQuery(entry) ==
    IF "sub_query" \notin DOMAIN entry.fields /\ StrStrip(lc_args.query) # << >>
    THEN StrStrip(lc_args.query)
    ELSE LcSubQueryOrQuery(entry)

\* the ids of the nodes of the tree that have children, and of the root
LcInnerIds ==
    {IterNodes(lc_args.tree_data.tree)[i].node_id :
        i \in {j \in 1 .. Len(IterNodes(lc_args.tree_data.tree)) :
                  IterNodes(lc_args.tree_data.tree)[j].children # << >>}} \cup {RootId}

\* the results are the first valid entries in the backend's order, at most
\* limit of them, each the id of a non-root leaf, with the sub_query
\* SubQueryOf gives
LcReturnsValidEntries(limit, SubQueryOf(_)) ==
    /\ lc_out.status = "returned"
    /\ Len(lc_out.results) = Min(Len(LcValidEntries), limit)
    /\ \A i \in 1 .. Len(lc_out.results) :
         /\ lc_out.results[i].node_id = StrStrip(LcValidEntries[i].fields["node_id"].s)
         /\ lc_out.results[i].node_id \notin LcInnerIds
         /\ lc_out.results[i].node_id # Str_zz
         /\ lc_out.results[i].sub_query = SubQueryOf(LcValidEntries[i])

\* C15, as stated: when the reply parses to an object with at least one
\* valid entry, locate_nodes returns the first min(top_k, 5) valid entries in
\* the backend's order: every returned node_id is the id of a non-root leaf
\* (entries naming an inner node, the root or an unknown id are dropped), and
\* each result has the entry's sub_query, or the original query when the
\* entry has none or a blank one.
C15_SubQueryOrOriginalQuery ==
    (LcDone /\ LcUsesBackend /\ LcResultList /\ LcValidEntries # << >>) =>
        LcReturnsValidEntries(Min(KwTopK, 5), LcSubQueryOrQuery)

\* C15, amended: the same with at most max(1, min(top_k, 5)) entries, and
\* with an entry without sub_query getting the query stripped of the
\* whitespace around it (the query as it is when it is all whitespace); an
\* entry with a blank sub_query gets the query as it is.
C15_OnlyLeafEntriesInBackendOrder ==
    (LcDone /\ LcUsesBackend /\ LcResultList /\ LcValidEntries # << >>) =>
        LcReturnsValidEntries(KwLimit, LcSubQueryOrStrippedQuery)

\* Witness of C15: top_k -1, the query " The tea ", two entries, the first
\* naming no leaf, the second the first leaf without sub_query: one result,
\* the second entry with the query stripped.
C15_Witness ==
    /\ LcDone /\ LcUsesBackend /\ LcResultList
    /\ lc_args.top_k = -1
    /\ lc_args.query = <<" ", "T", "h", "e", " ", "t", "e", "a", " ">>
    /\ Len(lc_reply.value.fields["results"].items) = 2
    /\ ~LcValidEntry(lc_reply.value.fields["results"].items[1])
    /\ lc_reply.value.fields["results"].items[1].t = "obj"
    /\ Len(LcValidEntries) = 1
    /\ "sub_query" \notin DOMAIN LcValidEntries[1].fields
    /\ lc_out.status = "returned"
    /\ Len(lc_out.results) = 1
    /\ lc_out.results[1].node_id = FirstLeafId(lc_args.tree_data)
    /\ lc_out.results[1].sub_query = <<"T", "h", "e", " ", "t", "e", "a">>

(***************************************************************************)
(* Claims about hybrid_retrieve.                                           *)
(***************************************************************************)
HyDone == call_pc = "done" /\ call_args.fn = "hybrid_retrieve"

HyChunks == call_args.node.chunks

\* the dense and the BM25 score of chunk j of the node
HyDense(j) == CosineSimilarity(call_args.query_embedding, HyChunks[j].embedding)

HyBm25(j) ==
    IF call_args.node.bm25_index = {} \/ Tokenize(call_args.query) = << >> THEN 0
    ELSE IF j <= Len((CHOOSE b \in call_args.node.bm25_index : TRUE).scores)
         THEN (CHOOSE b \in call_args.node.bm25_index : TRUE).scores[j]
         ELSE 0

\* Score(j) scaled to 0 .. 1 over the chunks of the node: 0 when all are equal
HyNorm(Score(_), j) ==
    LET all == {Score(i) : i \in 1 .. Len(HyChunks)}
        lowest == CHOOSE v \in all : \A w \in all : v <= w
        highest == CHOOSE v \in all : \A w \in all : v >= w
    IN  IF highest = lowest THEN 0 ELSE ((Score(j) - lowest) * ScoreOne) \div (highest - lowest)

\* dense_weight * dense_norm + bm25_weight * bm25_norm of chunk j (the
\* weights are in tenths)
HyFused(j) ==
    (call_args.dense_weight * HyNorm(HyDense, j) + call_args.bm25_weight * HyNorm(HyBm25, j))
        \div 10

\* the position in the node of the chunk of a result
HyPosition(item) == CHOOSE j \in 1 .. Len(HyChunks) : HyChunks[j].chunk_id = item.chunk.chunk_id

\* C16: on a node without chunks hybrid_retrieve returns [] and does not
\* call embed_query_fn; on a node with n >= 1 chunks and top_k >= 1 it
\* returns min(top_k, n) distinct chunks of the node, each with the fused
\* score dense_weight * dense_norm + bm25_weight * bm25_norm normalised over
\* the node's chunks, in non-increasing order of that score, no chunk left
\* out scoring above a returned one.
C16_HybridTopKByFusedScore ==
    HyDone =>
        /\ HyChunks = << >> => (call_out.result = << >> /\ call_out.embed_calls = 0)
        /\ (HyChunks # << >> /\ call_args.top_k >= 1) =>
              /\ call_out.embed_calls = 1
              /\ Len(call_out.result) = Min(call_args.top_k, Len(HyChunks))
              /\ \A i \in 1 .. Len(call_out.result) :
                   /\ \E j \in 1 .. Len(HyChunks) : call_out.result[i].chunk = HyChunks[j]
                   /\ call_out.result[i].score = HyFused(HyPosition(call_out.result[i]))
              /\ \A i, k \in 1 .. Len(call_out.result) :
                   /\ i # k => call_out.result[i].chunk.chunk_id # call_out.result[k].chunk.chunk_id
                   /\ i < k => call_out.result[i].score >= call_out.result[k].score
              /\ \A j \in 1 .. Len(HyChunks) :
                   (\A i \in 1 .. Len(call_out.result) : HyPosition(call_out.result[i]) # j) =>
                       \A i \in 1 .. Len(call_out.result) : call_out.result[i].score >= HyFused(j)

\* Witness of C16: three chunks, top_k 2, weights 0.3 and 0.7; the dense
\* scores 0, 0.6, 1 and the BM25 scores 1, 0, 0 fuse to 0.7, 0.18, 0.3, and
\* the call returns the first and the third chunk, in that order.
C16_Witness ==
    /\ HyDone
    /\ Len(HyChunks) = 3
    /\ call_args.top_k = 2
    /\ call_args.dense_weight = 3 /\ call_args.bm25_weight = 7
    /\ HyDense(1) = 0 /\ HyDense(2) = (6 * ScoreOne) \div 10 /\ HyDense(3) = ScoreOne
    /\ HyBm25(1) = ScoreOne /\ HyBm25(2) = 0 /\ HyBm25(3) = 0
    /\ Len(call_out.result) = 2
    /\ call_out.result[1].chunk = HyChunks[1]
    /\ call_out.result[1].score = (7 * ScoreOne) \div 10
    /\ call_out.result[2].chunk = HyChunks[3]
    /\ call_out.result[2].score = (3 * ScoreOne) \div 10
    /\ call_out.embed_calls = 1

(***************************************************************************)
(* Claims about synthesize.                                                *)
(***************************************************************************)
SyDone == call_pc = "done" /\ call_args.fn = "synthesize"

\* C17: synthesize makes no backend call when the evidence list is empty (it
\* returns the fixed insufficient-evidence message, client or not) and none
\* in mock mode or without a client (it returns the evidence dump, one entry
\* per item in the order of the list); otherwise it makes exactly one
\* chat_completion call and, when that call returns, returns its text
\* unchanged.
C17_SynthesizeBackendCalls ==
    SyDone =>
        /\ call_args.evidence = << >> =>
              /\ call_out.chat_calls = 0
              /\ call_out.outcome.status = "returned"
              /\ call_out.outcome.answer =
                     Literal("Insufficient evidence retrieved to answer this question.")
        /\ (call_args.evidence # << >> /\ (call_args.mock \/ ~call_args.client)) =>
              /\ call_out.chat_calls = 0
              /\ call_out.outcome.status = "returned"
              /\ call_out.outcome.answer.lit = "Based on retrieved evidence:"
              /\ Len(call_out.outcome.answer.lines) = Len(call_args.evidence)
              /\ \A i \in 1 .. Len(call_args.evidence) :
                   /\ call_out.outcome.answer.lines[i].idx = i
                   /\ call_out.outcome.answer.lines[i].heading_path =
                          call_args.evidence[i].chunk.heading_path
                   /\ call_out.outcome.answer.lines[i].text = call_args.evidence[i].chunk.text
        /\ (call_args.evidence # << >> /\ ~call_args.mock /\ call_args.client) =>
              /\ call_out.chat_calls = 1
              /\ call_args.reply.kind = "text" =>
                    /\ call_out.outcome.status = "returned"
                    /\ call_out.outcome.answer = Text(call_args.reply.chars)

\* Witness of C17: three evidence items, a client and mock off: one call,
\* whose text is the answer.
C17_Witness ==
    /\ SyDone
    /\ Len(call_args.evidence) = 3
    /\ call_args.client /\ ~call_args.mock
    /\ call_args.reply = AnswerText(<<"o", "k", " ", "[", "1", "]">>)
    /\ call_out.chat_calls = 1
    /\ call_out.outcome.answer = Text(<<"o", "k", " ", "[", "1", "]">>)

(***************************************************************************)
(* Claims about chunk_content.                                             *)
(***************************************************************************)
CkDone == call_pc = "done" /\ call_args.fn = "chunk_content"

\* the call of the claim: chunk size 100, overlap 20, min_chars 1 .. 20, on
\* one paragraph of 250 characters
CkTestCase ==
    /\ call_args.chunk_size = TestChunkSize
    /\ call_args.overlap = TestOverlap
    /\ call_args.min_chars \in 1 .. DefaultMinChars
    /\ Len(call_args.content) = TestParagraphLen
    /\ StrStrip(call_args.content) = call_args.content
    /\ Len(SplitParagraphs(call_args.content)) = 1

\* s[-n:] and s[:n]
CkTail(s, n) == SubSeq(s, Max(1, Len(s) - n + 1), Len(s))
CkHead(s, n) == SubSeq(s, 1, Min(n, Len(s)))

\* C20: chunk_content with chunk size 100 and overlap 20 on one paragraph of
\* 250 characters yields at least 3 chunks, and the last 20 characters of
\* every chunk equal the first 20 characters of the chunk after it.
C20_ConsecutiveChunksOverlap ==
    (CkDone /\ CkTestCase) =>
        /\ Len(call_out) >= 3
        /\ \A i \in 1 .. (Len(call_out) - 1) :
             CkTail(call_out[i], TestOverlap) = CkHead(call_out[i + 1], TestOverlap)

(***************************************************************************)
(* Claims about the index store.                                           *)
(***************************************************************************)
\* build_index_from_tree has returned
IxBuilt == call_args.fn = "index" /\ call_pc \in {"built", "saved", "loaded"}

IxIndex == call_out.build.index

\* the ids of the nodes whose chunk list holds the chunk
IxHolders(chunk) ==
    {node_id \in DOMAIN IxIndex.nodes :
        \E j \in 1 .. Len(IxIndex.nodes[node_id].chunks) :
            IxIndex.nodes[node_id].chunks[j] = chunk}

\* C19: after build_index_from_tree every chunk of all_chunks is in the
\* chunk list of exactly one IndexedNode, whose id is the chunk's
\* source_node_id; chunk ids are unique; the keys of nodes are exactly the
\* ids of the non-root leaves of the tree; a tree without leaves gives no
\* nodes and no chunks.
C19_ChunksAndNodesMatchLeaves ==
    IxBuilt =>
        /\ \A i \in 1 .. Len(IxIndex.all_chunks) :
             /\ Cardinality(IxHolders(IxIndex.all_chunks[i])) = 1
             /\ IxHolders(IxIndex.all_chunks[i]) = {IxIndex.all_chunks[i].source_node_id}
        /\ \A i, j \in 1 .. Len(IxIndex.all_chunks) :
             i # j => IxIndex.all_chunks[i].chunk_id # IxIndex.all_chunks[j].chunk_id
        /\ DOMAIN IxIndex.nodes = LeafIdsOf(call_args.tree_data)
        /\ LeafNodes(call_args.tree_data) = << >> =>
              (DOMAIN IxIndex.nodes = {} /\ IxIndex.all_chunks = << >>)

\* C18: load_index(save_index(index)) reproduces every index that
\* build_index_from_tree has built: save_index returns, and load_index then
\* gives the same doc_id, tree, node ids, per node the same chunks in the
\* same order (and heading_path and BM25 index), the same all_chunks in the
\* same order with text, source_node_id, heading_path and embedding of
\* every chunk; also for an index without nodes and for nodes without
\* chunks.
C18_LoadAfterSaveReproducesIndex ==
    /\ (IxBuilt /\ call_pc = "saved") => call_out.files.status = "returned"
    /\ (IxBuilt /\ call_pc = "loaded") =>
          /\ call_out.loaded.doc_id = IxIndex.doc_id
          /\ call_out.loaded.tree_data = IxIndex.tree_data
          /\ DOMAIN call_out.loaded.nodes = DOMAIN IxIndex.nodes
          /\ \A node_id \in DOMAIN IxIndex.nodes :
               /\ Len(call_out.loaded.nodes[node_id].chunks) = Len(IxIndex.nodes[node_id].chunks)
               /\ \A i \in 1 .. Len(IxIndex.nodes[node_id].chunks) :
                    call_out.loaded.nodes[node_id].chunks[i].chunk_id
                        = IxIndex.nodes[node_id].chunks[i].chunk_id
          /\ Len(call_out.loaded.all_chunks) = Len(IxIndex.all_chunks)
          /\ \A i \in 1 .. Len(IxIndex.all_chunks) :
               /\ call_out.loaded.all_chunks[i].chunk_id = IxIndex.all_chunks[i].chunk_id
               /\ call_out.loaded.all_chunks[i].text = IxIndex.all_chunks[i].text
               /\ call_out.loaded.all_chunks[i].source_node_id
                      = IxIndex.all_chunks[i].source_node_id
               /\ call_out.loaded.all_chunks[i].heading_path = IxIndex.all_chunks[i].heading_path
               /\ call_out.loaded.all_chunks[i].embedding = IxIndex.all_chunks[i].embedding
          /\ call_out.loaded = IxIndex

\* the leaves of the tree handed to build_index_from_tree
IxLeaves == LeafNodes(call_args.tree_data)

\* the texts chunk_content produces for a leaf
IxTexts(leaf) ==
    ChunkContent(leaf.content, DefaultChunkSize, DefaultOverlap, DefaultMinChars)

\* no other leaf of the tree has the node id of leaf i
IxOwnId(i) ==
    \A j \in 1 .. Len(IxLeaves) :
        j # i => StrStrip(IxLeaves[j].node_id) # StrStrip(IxLeaves[i].node_id)

\* what embed_texts returned for the texts of a leaf
IxVectors(leaf) ==
    EmbedTexts(BuildEmbedder(call_args.mock, call_args.client), call_args.embed, IxTexts(leaf))

\* C27: for every leaf (with a node id of its own) the IndexedNode built by
\* build_index_from_tree holds exactly one Chunk per text of chunk_content,
\* in chunker order, with id <node_id>_chunk_<sequential index> and the
\* vector the embedder returned for the text; and when the embedder raises
\* or returns a number of vectors different from the number of texts, the
\* build fails instead of producing a node with fewer chunks.
C27_OneChunkPerTextOrBuildFails ==
    /\ IxBuilt =>
         \A i \in 1 .. Len(IxLeaves) :
             IxOwnId(i) =>
                 /\ Len(IxIndex.nodes[StrStrip(IxLeaves[i].node_id)].chunks)
                        = Len(IxTexts(IxLeaves[i]))
                 /\ \A j \in 1 .. Len(IxIndex.nodes[StrStrip(IxLeaves[i].node_id)].chunks) :
                      /\ IxIndex.nodes[StrStrip(IxLeaves[i].node_id)].chunks[j].chunk_id
                             = ChunkId(StrStrip(IxLeaves[i].node_id), j - 1)
                      /\ IxIndex.nodes[StrStrip(IxLeaves[i].node_id)].chunks[j].text
                             = IxTexts(IxLeaves[i])[j]
                      /\ IxIndex.nodes[StrStrip(IxLeaves[i].node_id)].chunks[j].embedding
                             = IxVectors(IxLeaves[i])[j]
    /\ (/\ call_args.fn = "index" /\ call_pc # "ready"
        /\ call_args.embed \in {"short", "raise"}
        /\ EmbedderIsCalled(call_args.tree_data))
           => call_out.build.status = "raised"

(***************************************************************************)
(* Claims about the loops of chunk_content.                                *)
(***************************************************************************)
ClCall == call_args.fn = "chunk_loop"

ClDone == ClCall /\ call_pc = "done"

\* C28: chunk_content terminates for every content, every chunk_size and
\* every overlap, also for overlap >= chunk_size, where the window step is
\* 1: every turn of the while loop moves start forward and every call that
\* was entered returns; and every chunk it returns has a length of at least
\* min_chars and at most chunk_size.
C28_TerminatesWithBoundedChunks ==
    /\ [](ClCall =>
            \A j \in 1 .. Len(call_out.chunks) :
                /\ Len(call_out.chunks[j]) >= call_args.min_chars
                /\ Len(call_out.chunks[j]) <= call_args.chunk_size)
    /\ [][(ClCall /\ call_out.start >= 0 /\ call_out'.start >= 0)
             => call_out'.start > call_out.start]_vars
    /\ (ClCall /\ call_pc = "ready") ~> ClDone

\* Witness of C28: a call with overlap >= chunk_size > 0 on a paragraph
\* longer than chunk_size has returned, with a chunk per window that is not
\* shorter than min_chars.
C28_Witness ==
    /\ ClDone
    /\ call_args.chunk_size = 4 /\ call_args.overlap = 5 /\ call_args.min_chars = 2
    /\ call_args.content = CycleText(9)
    /\ Len(call_out.chunks) = 8
    /\ call_out.chunks[1] = <<"a", "b", "c", "d">>
    /\ call_out.chunks[2] = <<"b", "c", "d", "e">>
    /\ call_out.chunks[8] = <<"a", "b">>
    /\ call_out.chunks = ChunkContent(call_args.content, 4, 5, 2)

\* heading + summary of the leaf with this id, as the strategy reads it
KwText(node_id) ==
    NodeText(KwLeaves[CHOOSE i \in 1 .. Len(KwLeaves) : KwLeaves[i].node_id = node_id])

\* the text holds a query token as a substring, but shares no token with
\* the query
KwSubstringOnly(node_id) ==
    /\ KwQueryTokens \cap SeqToSet(Tokenize(KwText(node_id))) = {}
    /\ \E token \in KwQueryTokens : StrContains(token, StrLower(KwText(node_id)))

\* the text shares no token and no substring with the query
KwUnrelated(node_id) ==
    /\ KwQueryTokens \cap SeqToSet(Tokenize(KwText(node_id))) = {}
    /\ \A token \in KwQueryTokens : ~StrContains(token, StrLower(KwText(node_id)))

\* the positions of the results that name the leaf
KwPositions(node_id) ==
    {i \in 1 .. Len(lc_out.results) : lc_out.results[i].node_id = node_id}

\* C22: in the keyword strategy a leaf whose heading + summary text holds a
\* query token only as a substring is ranked above every leaf whose text
\* shares no token and no substring with the query: where the second is
\* returned, the first is returned before it.
C22_SubstringLeafAboveUnrelatedLeaf ==
    KwDone =>
        \A a, b \in LeafIdsOf(lc_args.tree_data) :
            (KwSubstringOnly(a) /\ KwUnrelated(b)) =>
                \A j \in KwPositions(b) : \E i \in KwPositions(a) : i < j

\* Witness of C22: the leaf "oak elm" stands before the leaf "ants" in the
\* tree; for the query "ant tea" the leaf "ants" is returned first.
C22_Witness ==
    /\ KwDone
    /\ Len(KwLeaves) = 2
    /\ KwLeaves[1].node_id = KwLeafId(5)
    /\ KwLeaves[2].node_id = KwLeafId(2)
    /\ lc_args.query = <<"a", "n", "t", " ", "t", "e", "a">>
    /\ KwSubstringOnly(KwLeafId(2))
    /\ KwUnrelated(KwLeafId(5))
    /\ Len(lc_out.results) = 2
    /\ lc_out.results[1].node_id = KwLeafId(2)
    /\ lc_out.results[2].node_id = KwLeafId(5)

(***************************************************************************)
(* Claims about the seeding and the fill step of the selection.            *)
(***************************************************************************)
\* the coverage target of the call: 0 without rerank_diversify, else
\* min(U, k, rerank_min_unique_nodes) for an override > 0 and
\* min(U, k, ceil(k/2)) for the automatic target
RrTarget ==
    IF ~rr_args.config.rerank_diversify THEN 0
    ELSE IF rr_args.config.rerank_min_unique_nodes > 0
         THEN Min(Cardinality(NodesOf(rr_pool)),
                  Min(RrK, rr_args.config.rerank_min_unique_nodes))
         ELSE Min(Cardinality(NodesOf(rr_pool)), Min(RrK, (RrK + 1) \div 2))

\* the rank of a candidate in the pool: 1 + the number of candidates above it
RrRank(item) ==
    1 + Cardinality({j \in 1 .. Len(rr_pool) : RanksAbove(rr_pool[j], item)})

\* the candidate is the highest-ranked one of its source node
RrBestOfNode(item) ==
    \A j \in 1 .. Len(rr_pool) :
        (rr_pool[j].chunk.source_node_id = item.chunk.source_node_id
            /\ rr_pool[j].oid # item.oid) => RanksAbove(item, rr_pool[j])

\* `selected` after the seeding step
RrSeeds ==
    IF RrTarget > 0
    THEN SeedLoop(SortedChunks(rr_pool), 1, << >>, {}, RrTarget, RrK)
    ELSE << >>

\* C24: for every source node represented in the list rerank_chunks returns,
\* the list holds that node's highest-ranked candidate of the pool; each
\* node taken in the seeding step is represented by its single best
\* candidate, the seeds are kept in the result, and the nodes are seeded in
\* the rank order of their best candidates: no node left unseeded has a
\* candidate above a seed.
C24_NodesRepresentedByBestCandidate ==
    (RrDone /\ rr_args.pool # << >>) =>
        /\ \A j \in 1 .. Len(rr_pool) :
             (rr_pool[j].chunk.source_node_id \in NodesOf(rr_result) /\ RrBestOfNode(rr_pool[j]))
                 => \E i \in 1 .. Len(rr_result) : rr_result[i] = rr_pool[j]
        /\ Len(RrSeeds) = RrTarget
        /\ \A s \in 1 .. Len(RrSeeds) :
             /\ RrBestOfNode(RrSeeds[s])
             /\ \E i \in 1 .. Len(rr_result) : rr_result[i] = RrSeeds[s]
             /\ \A t \in (s + 1) .. Len(RrSeeds) : RanksAbove(RrSeeds[s], RrSeeds[t])
             /\ \A j \in 1 .. Len(rr_pool) :
                  rr_pool[j].chunk.source_node_id \notin NodesOf(RrSeeds)
                      => RanksAbove(RrSeeds[s], rr_pool[j])

\* Witness of C24: four candidates of three nodes, top_k 3, an override of
\* 3: every node is seeded, and the best candidate of the third node is in
\* the result although it ranks last in the pool.
C24_Witness ==
    /\ RrDone
    /\ Len(rr_args.pool) = 4
    /\ RrK = 3
    /\ RrTarget = 3
    /\ Len(RrSeeds) = 3
    /\ RrRank(RrSeeds[3]) = 4
    /\ \E i \in 1 .. Len(rr_result) : rr_result[i] = RrSeeds[3]
    /\ ~IsPlainTopK(rr_result)

\* the items of the result that lie outside the plain top-k of the pool
RrOutsideTopK == {i \in 1 .. Len(rr_result) : RrRank(rr_result[i]) > RrK}

\* the items of the result that the fill step added
RrFilled ==
    {i \in 1 .. Len(rr_result) :
        \A s \in 1 .. Len(RrSeeds) : RrSeeds[s].oid # rr_result[i].oid}

\* C25: coverage costs a bounded number of slots: with coverage target T at
\* most max(T - 1, 0) of the k items rerank_chunks returns lie outside the
\* plain top-k of the sorted pool, every item the fill step added lies
\* inside the plain top-k, and with the automatic target the items outside
\* are at most half of the k slots.
C25_CoverageCostsBoundedSlots ==
    (RrDone /\ rr_args.pool # << >>) =>
        /\ Len(rr_result) = RrK
        /\ Cardinality(RrOutsideTopK) <= Max(RrTarget - 1, 0)
        /\ \A i \in RrFilled : RrRank(rr_result[i]) <= RrK
        /\ rr_args.config.rerank_min_unique_nodes = 0
              => 2 * Cardinality(RrOutsideTopK) <= RrK

\* Witness of C25: automatic target, four candidates, top_k 3, target 2:
\* one item of the result lies outside the plain top-3 and the one item the
\* fill step added lies inside.
C25_Witness ==
    /\ RrDone
    /\ Len(rr_args.pool) = 4
    /\ RrK = 3
    /\ rr_args.config.rerank_diversify
    /\ rr_args.config.rerank_min_unique_nodes = 0
    /\ RrTarget = 2
    /\ Cardinality(RrOutsideTopK) = 1
    /\ Cardinality(RrFilled) = 1
    /\ \A i \in RrFilled : RrRank(rr_result[i]) <= RrK

\* run_pipeline has ended
PpEnded == pp_pc \in {"returned", "raised"}

PpEvidenceNodes == {pp_evidence[i].chunk.source_node_id : i \in 1 .. Len(pp_evidence)}

PpLocatedIds == {pp_located[i].node_id : i \in 1 .. Len(pp_located)}

\* C30: run_pipeline called with client = None completes without raising,
\* whether or not mock is set, and makes no backend call: keyword location,
\* the local query embedding, the ranking by fused score and the evidence
\* dump (or the fixed text, without evidence).
C30_NoClientRunsLikeMock ==
    (PpEnded /\ ~pp_args.client) =>
        /\ pp_pc = "returned"
        /\ pp_calls = << >>
        /\ pp_result.step1_nodes
               = KeywordLocate(pp_args.query, pp_args.index.tree_data,
                               LocateTopK(pp_args.config.top_k, pp_args.config)).results
        /\ \A i \in 1 .. Len(pp_evidence) : pp_evidence[i].score = FusedScore(pp_evidence[i])
        /\ pp_result.answer = IF pp_evidence = << >> THEN InsufficientEvidence
                              ELSE EvidenceDump(pp_evidence)

\* C29: the final evidence of run_pipeline never holds the same chunk_id
\* twice, in mock mode and in model-assisted mode, for every reply of the
\* backend to the node-location request: locate_nodes returns each node_id
\* at most once, and the reranker selects each pooled candidate once.
C29_EvidenceChunkIdsDistinct ==
    /\ \A i, j \in 1 .. Len(pp_located) :
          i # j => pp_located[i].node_id # pp_located[j].node_id
    /\ \A i, j \in 1 .. Len(pp_evidence) :
          i # j => pp_evidence[i].chunk.chunk_id # pp_evidence[j].chunk.chunk_id

\* a located node has a chunk in the index
PpLocatedHasChunk ==
    \E i \in 1 .. Len(pp_located) :
        /\ pp_located[i].node_id \in DOMAIN pp_args.index.nodes
        /\ pp_args.index.nodes[pp_located[i].node_id].chunks # << >>

\* the answer is a string with at least one character
PpAnswerNonEmpty ==
    \/ pp_result.answer.lit # ""
    \/ pp_result.answer.chars # << >>

\* C23: in mock mode run_pipeline makes no backend call in any stage, also
\* when a client is passed, and does not raise; every chunk of the final
\* evidence has a source_node_id among the node ids stage 1 returned; and
\* whenever a located node has a chunk in the index, the final evidence is
\* not empty and the answer is a non-empty string.
C23_MockRunIsLocalAndAnswers ==
    pp_args.mock =>
        /\ pp_calls = << >>
        /\ pp_pc # "raised"
        /\ PpEvidenceNodes \subseteq PpLocatedIds
        /\ pp_pc = "returned" =>
              /\ pp_result.step2_retrieved = pp_evidence
              /\ pp_result.step1_nodes = pp_located
              /\ PpLocatedHasChunk =>
                    (pp_evidence # << >> /\ PpAnswerNonEmpty)

\* Witness of C23: a mock run with a client passed has returned, with two
\* chunks of evidence from the located nodes, and no backend call was made.
C23_Witness ==
    /\ pp_args.mock /\ pp_args.client
    /\ pp_pc = "returned"
    /\ PpLocatedHasChunk
    /\ Len(pp_result.step2_retrieved) = 2
    /\ PpEvidenceNodes \subseteq PpLocatedIds
    /\ pp_result.answer = EvidenceDump(pp_evidence)
    /\ pp_calls = << >>

\* the keys hybrid_retrieve writes into retrieval_detail
HybridDetailKeys == {"dense_score", "bm25_score", "fused_score"}

\* the item carries rerank_score
PpHasRerankScore(item) == "rerank_score" \in DOMAIN item.retrieval_detail

\* after is the object before, with nothing removed from retrieval_detail,
\* nothing changed in it and at most rerank_score added
PpDetailGrown(before, after) ==
    /\ after.oid = before.oid
    /\ after.chunk = before.chunk
    /\ DOMAIN before.retrieval_detail \subseteq DOMAIN after.retrieval_detail
    /\ DOMAIN after.retrieval_detail \subseteq DOMAIN before.retrieval_detail \cup {"rerank_score"}
    /\ \A key \in DOMAIN before.retrieval_detail :
          after.retrieval_detail[key] = before.retrieval_detail[key]

\* C26: retrieval_detail is append-only across the stages.  Every candidate
\* of the pool, and so every item of the final evidence, carries
\* dense_score, bm25_score and fused_score as hybrid_retrieve recorded them:
\* a step of the run keeps the candidates pooled before it, with every key
\* and value of their maps; the rerank stage adds at most rerank_score (the
\* rounded backend score, score being overwritten with the backend score),
\* on every pooled candidate when backend scoring succeeded and on none
\* otherwise, in which case the pool is as it was.
C26_RetrievalDetailAppendOnly ==
    /\ [](/\ \A i \in 1 .. Len(pp_pool) :
               HybridDetailKeys \subseteq DOMAIN pp_pool[i].retrieval_detail
          /\ \A e \in 1 .. Len(pp_evidence) :
               /\ \E i \in 1 .. Len(pp_pool) : pp_evidence[e] = pp_pool[i]
               /\ HybridDetailKeys \subseteq DOMAIN pp_evidence[e].retrieval_detail)
    /\ [][/\ Len(pp_pool') >= Len(pp_pool)
          /\ \A i \in 1 .. Len(pp_pool) : PpDetailGrown(pp_pool[i], pp_pool'[i])
          /\ \A i \in (Len(pp_pool) + 1) .. Len(pp_pool') :
               /\ pp_pc = "retrieve"
               /\ DOMAIN pp_pool'[i].retrieval_detail = HybridDetailKeys
               /\ pp_pool'[i].retrieval_detail["fused_score"] = Round4(pp_pool'[i].score)
          /\ \/ pp_pool' = pp_pool \o SubSeq(pp_pool', Len(pp_pool) + 1, Len(pp_pool'))
             \/ /\ pp_pc = "rerank" /\ PipeUsesBackend
                /\ Last(pp_calls') = "rerank"
                /\ \A i \in 1 .. Len(pp_pool') :
                     /\ ~PpHasRerankScore(pp_pool[i])
                     /\ PpHasRerankScore(pp_pool'[i])
                     /\ pp_pool'[i].retrieval_detail["rerank_score"]
                            = Round4(pp_pool'[i].score)]_vars

\* Witness of C26: a model-assisted run has returned evidence whose items
\* carry the three scores of hybrid_retrieve and a rerank_score, with a
\* score that is no longer the fused score.
C26_Witness ==
    /\ pp_pc = "returned"
    /\ PipeUsesBackend
    /\ Len(pp_evidence) = 2
    /\ \A e \in 1 .. Len(pp_evidence) :
         /\ DOMAIN pp_evidence[e].retrieval_detail = HybridDetailKeys \cup {"rerank_score"}
         /\ pp_evidence[e].retrieval_detail["rerank_score"] = Round4(pp_evidence[e].score)
    /\ \E e \in 1 .. Len(pp_evidence) :
         pp_evidence[e].score # pp_evidence[e].retrieval_detail["fused_score"]

(***************************************************************************)
(* Claims about queries over a shared index.                               *)
(***************************************************************************)
\* what the equality of two RetrievedChunk objects compares
ItemValues(items) ==
    [i \in 1 .. Len(items) |->
        [chunk |-> items[i].chunk, score |-> items[i].score,
         retrieval_detail |-> items[i].retrieval_detail]]

\* all_retrieved of a mock call that runs alone, after the loop over located
RECURSIVE AlonePool(_, _, _, _)
AlonePool(index, call, located, pool) ==
    IF located = << >> THEN pool
    ELSE AlonePool(index, call, Tail(located),
             pool \o (IF Head(located).node_id \in DOMAIN index.nodes
                      THEN HybridRetrieve(index.nodes[Head(located).node_id],
                               Head(located).sub_query, call.config.top_k,
                               call.config.dense_weight, call.config.bm25_weight,
                               EmbedQuery(<<HashEmbedding(Head(located).sub_query)>>),
                               Len(pool) + 1)
                      ELSE << >>))

AloneEvidence(index, call, located) ==
    SelectWithNodeDiversity(
        ScoreCandidates(AlonePool(index, call, located, << >>), call.client, TRUE, NoReply),
        call.config, ResolvedTopK(call.config.top_k, call.config))

AloneResult(call, locate_result, evidence) ==
    PipelineResult(call.query, locate_result.thinking, locate_result.results,
                   ItemValues(evidence),
                   Synthesize(evidence, call.client, TRUE, NoChat).answer)

AloneFrom(index, call, locate_result) ==
    AloneResult(call, locate_result, AloneEvidence(index, call, locate_result.results))

\* the PipelineResult of a mock call that is the only call over the index
RunAlone(index, call) ==
    AloneFrom(index, call, LocateNodes(call.query, index.tree_data, call.config, call.client,
                                       TRUE, call.config.top_k, NoChat))

\* the PipelineResult call r returned, read through the references
SharedResult(r) ==
    [SharedRun(r).result EXCEPT
        !.step2_retrieved = ItemValues(ItemsRead(call_out.heap, @))]

SharedRunning == call_args.fn = "shared_queries"

\* C21: run_pipeline never changes the RagIndex.  However the steps of the
\* calls over a shared index interleave, the tree payload, the node map,
\* every node's chunk list, index.all_chunks and every field of every Chunk
\* equal their values before the first call; and a mock call that has
\* returned holds the PipelineResult it returns when it is the only call.
C21_QueriesLeaveTheIndexAlone ==
    SharedRunning =>
        /\ IndexRead(call_out.heap, call_out.index) = call_args.index
        /\ SubSeq(call_out.heap, 1, Len(call_args.index.all_chunks))
               = call_args.index.all_chunks
        /\ \A r \in SharedRuns :
             (SharedArgs(r).mock /\ SharedRun(r).pc = "returned") =>
                 SharedResult(r) = RunAlone(call_args.index, SharedArgs(r))

\* two calls have returned, a mock call and a call whose rerank request the
\* backend answered; the backend call created a RetrievedChunk between two
\* of the mock call, and both calls hold evidence for the same Chunk object
\* with different scores
C21_Witness ==
    /\ SharedRunning
    /\ \E r \in SharedRuns, s \in SharedRuns :
         /\ SharedArgs(r).mock /\ SharedRun(r).pc = "returned"
         /\ ~SharedArgs(s).mock /\ SharedRun(s).pc = "returned"
         /\ \E i \in 1 .. Len(SharedRun(r).pool), j \in 1 .. Len(SharedRun(r).pool),
               k \in 1 .. Len(SharedRun(s).pool) :
              /\ SharedRun(r).pool[i] < SharedRun(s).pool[k]
              /\ SharedRun(s).pool[k] < SharedRun(r).pool[j]
         /\ \E a \in SeqToSet(SharedRun(r).evidence), b \in SeqToSet(SharedRun(s).evidence) :
              /\ call_out.heap[a].chunk = call_out.heap[b].chunk
              /\ call_out.heap[a].score # call_out.heap[b].score
              /\ "rerank_score" \in DOMAIN call_out.heap[b].retrieval_detail
              /\ "rerank_score" \notin DOMAIN call_out.heap[a].retrieval_detail

====
